---- MODULE Spec2Model ----
(***************************************************************************)
(* Model of the fraud-detection GNN pipeline:                              *)
(*   src/src/training/utils.py   (splits, EarlyStopping, checkpoints,      *)
(*                                class weights)                           *)
(*   src/src/training/train.py   (FraudDetectionTrainer, main)             *)
(*   src/src/training/metrics.py (FraudMetrics, evaluate_model_all_splits) *)
(*   src/src/graph/build_graph.py (GraphBuilder, main)                     *)
(*   src/src/models/graphsage.py, gat.py, rgcn.py (forward passes)         *)
(*   src/src/database/dynamic_postgres_manager.py (PostgreSQLManager),     *)
(*   src/src/database/data_inserter.py (DataInserter.insert_transaction)   *)
(*                                                                         *)
(* Numbers.  Split ratios are multiples of 1/RatioDen (train_ratio = 2     *)
(* with RatioDen = 4 is 0.5).  Validation F1 scores are multiples of       *)
(* 0.0005, so that the min_delta = 0.001 given to EarlyStopping is        *)
(* MinDelta = 2 units.  Node indices are 1-based (Python index i is node   *)
(* i+1); a boolean mask tensor is the set of nodes where it is True.       *)
(* Model parameters and optimizer state are abstracted to a version        *)
(* number: the number of gradient steps applied (or the number stored in   *)
(* a checkpoint that was loaded).                                          *)
(***************************************************************************)
EXTENDS Integers, Sequences, FiniteSets, TLC

VARIABLES
    phase,            \* trainer lifecycle position
    error,            \* exception that ended the last operation, or "none"
    labels,           \* data['account'].y
    train_ratio, val_ratio, test_ratio,   \* arguments of the split call
    split_fn,         \* which split function produced the masks
    train_mask, val_mask, test_mask,      \* masks (meaningful once split_fn is set)
    criterion,        \* self.criterion
    num_epochs, patience, save_best,      \* trainer / train() parameters
    model_params,     \* in-memory model parameters (version)
    optimizer_state,  \* in-memory optimizer state (version)
    epoch,            \* loop variable of train()
    best_val_f1, best_epoch,              \* locals of train()
    history,          \* history['val_f1']
    es_best_score, es_counter, es_early_stop,   \* EarlyStopping fields
    ckpt_file,        \* file at config.MODEL_CHECKPOINT_PATH/best_<model>.pt
    ckpt_log,         \* "Checkpoint saved" log lines: <<epoch, f1>> per write
    epoch_log,        \* the calls of the current iteration of train(), in order
    db,               \* rows the five fetch_* queries of GraphBuilder return
    node_mappings,    \* GraphBuilder.node_mappings
    graph_stats,      \* GraphBuilder.graph_stats
    graph_data,       \* the HeteroData build_hetero_graph returns
    build_phase,      \* position of build_graph.main()
    graph_file,       \* config.DATA_PROCESSED_PATH/fraud_graph.pt
    mappings_file,    \* config.DATA_PROCESSED_PATH/node_mappings.pkl
    stats_file,       \* config.DATA_PROCESSED_PATH/graph_stats.pkl
    data,             \* FraudDetectionTrainer.data, the loaded graph
    model_type,       \* FraudDetectionTrainer.model_type
    y_true, y_pred,   \* arguments of compute_metrics
    y_prob,           \* its optional argument: None or the probabilities
    metrics,          \* what compute_metrics returned or raised
    metric,           \* argument of find_best_threshold: the metric to optimize
    best_found,       \* what find_best_threshold returned
    connection,       \* PostgreSQLManager.connection
    txn_table,        \* the transactions table of the database
    returned,         \* the last call of the manager and what it returned
    flat,             \* what HeteroRGCN._hetero_to_homo returned
    x_out,            \* what HeteroRGCN._homo_to_hetero returned
    num_layers,       \* num_layers of the encoder
    applied           \* the modules and functions forward() applied, in order

vars == <<phase, error, labels, train_ratio, val_ratio, test_ratio, split_fn,
          train_mask, val_mask, test_mask, criterion, num_epochs, patience,
          save_best, model_params, optimizer_state, epoch, best_val_f1,
          best_epoch, history, es_best_score, es_counter, es_early_stop,
          ckpt_file, ckpt_log, epoch_log,
          db, node_mappings, graph_stats, graph_data,
          build_phase, graph_file, mappings_file, stats_file, data,
          model_type, y_true, y_pred, y_prob, metrics, metric, best_found,
          connection, txn_table, returned, flat, x_out, num_layers,
          applied>>

splitVars == <<labels, train_ratio, val_ratio, test_ratio, split_fn,
               train_mask, val_mask, test_mask>>
trainLoopVars == <<epoch, best_val_f1, best_epoch, history, es_best_score,
                   es_counter, es_early_stop, ckpt_log,
                   epoch_log>>
trainerVars == <<phase, error, labels, train_ratio, val_ratio, test_ratio,
                 split_fn, train_mask, val_mask, test_mask, criterion,
                 num_epochs, patience, save_best, model_params,
                 optimizer_state, epoch, best_val_f1, best_epoch, history,
                 es_best_score, es_counter, es_early_stop, ckpt_file, ckpt_log,
                 epoch_log>>
graphVars == <<db, node_mappings, graph_stats, graph_data, build_phase,
               graph_file, mappings_file, stats_file>>
dataVars == <<data, model_type>>
metricsVars == <<y_true, y_pred, y_prob, metrics, metric, best_found>>
managerVars == <<connection, txn_table, returned>>
encoderVars == <<flat, x_out, num_layers, applied>>

\* Python's empty dict, and a path where no file exists
EmptyDict == <<>>
Absent == [exists |-> FALSE]

\* the value of a parameter left at its default None
None == "None"

\* where no call has returned yet
NoResult == <<>>

\* no GraphBuilder has run and compute_metrics has not been called
NoBuilder ==
    /\ db = EmptyDict
    /\ node_mappings = EmptyDict
    /\ graph_stats = EmptyDict
    /\ graph_data = EmptyDict
    /\ build_phase = "none"
    /\ graph_file = Absent
    /\ mappings_file = Absent
    /\ stats_file = Absent
NoGraphLoaded ==
    /\ data = EmptyDict
    /\ model_type = "graphsage"
\* no table named transactions exists
NoTable == [exists |-> FALSE]

\* no manager has been created
NoManager ==
    /\ connection = "none"
    /\ txn_table = NoTable
    /\ returned = NoResult
\* the R-GCN encoder has not flattened a graph
NoFlatten ==
    /\ flat = NoResult
    /\ x_out = NoResult

\* an encoder with the default number of layers that has not been called
DefaultLayers == 3
NoForward ==
    /\ num_layers = DefaultLayers
    /\ applied = <<>>
NoMetricsCall ==
    /\ y_true = <<>>
    /\ y_pred = <<>>
    /\ y_prob = None
    /\ metrics = EmptyDict
    /\ metric = "f1"
    /\ best_found = NoResult

(***************************************************************************)
(* Bounds and program constants                                            *)
(***************************************************************************)
MaxNodes == 4        \* longest label vector
RatioDen == 4        \* ratios are multiples of 1/RatioDen
RatioSlack == 1      \* ratios range over -RatioSlack .. RatioDen+RatioSlack
MaxScore == 6        \* validation F1 ranges over 0..MaxScore (units of 0.0005)
MaxEpochs == 5       \* largest num_epochs
MaxPatience == 2     \* largest patience
MaxVersion == 2      \* parameter versions found in foreign checkpoint files

MinDelta == 2        \* min_delta=0.001 passed by train(), in units of 0.0005
InitBestValF1 == 0   \* best_val_f1 = 0 at the start of train()

NoScore == -1        \* EarlyStopping.best_score = None

Scores == 0..MaxScore
Ratios == (0 - RatioSlack)..(RatioDen + RatioSlack)

Max(a, b) == IF a >= b THEN a ELSE b
Min(a, b) == IF a <= b THEN a ELSE b
Abs(a) == IF a >= 0 THEN a ELSE 0 - a

(***************************************************************************)
(* Checkpoint files                                                        *)
(***************************************************************************)
CkptKeys == {"epoch", "model_state_dict", "optimizer_state_dict", "metrics"}

\* no file at the path
NoFile ==
    [kind |-> "none", keys |-> {}, epoch |-> 0, model_state_dict |-> 0,
     optimizer_state_dict |-> 0, metrics |-> 0, opt_ok |-> TRUE]

\* what a write that did not finish leaves at the path: torch.save opens the
\* target path itself for writing, so the old content is already gone
PartialFile ==
    [kind |-> "partial", keys |-> {}, epoch |-> 0, model_state_dict |-> 0,
     optimizer_state_dict |-> 0, metrics |-> 0, opt_ok |-> TRUE]

\* the dictionary save_checkpoint builds and torch.save serialises
CheckpointDict(ep, model, opt, f1) ==
    [kind |-> "complete", keys |-> CkptKeys, epoch |-> ep,
     model_state_dict |-> model, optimizer_state_dict |-> opt,
     metrics |-> f1, opt_ok |-> TRUE]

\* a complete checkpoint left at the path by an earlier run
StaleFile == CheckpointDict(MaxEpochs + 1, MaxEpochs + 1, MaxEpochs + 1, MaxScore)

IsComplete(f) == f.kind = "complete"

(***************************************************************************)
(* EarlyStopping                                                           *)
(***************************************************************************)
\* is_better without the min_delta margin
IsBetter_NoDelta(new, best, min_delta) == new > best

\* is_better for mode='max'
IsBetter(new, best, min_delta) == new > best + min_delta

\* EarlyStopping.__call__: the returned flag and the fields after the call
EarlyStoppingCall(best, counter, early, score, pat, min_delta) ==
    IF best = NoScore
    THEN [stop |-> FALSE, best_score |-> score, counter |-> counter,
          early_stop |-> early]
    ELSE IF IsBetter(score, best, min_delta)
    THEN [stop |-> FALSE, best_score |-> score, counter |-> 0,
          early_stop |-> early]
    ELSE IF counter + 1 >= pat
    THEN [stop |-> TRUE, best_score |-> best, counter |-> counter + 1,
          early_stop |-> TRUE]
    ELSE [stop |-> FALSE, best_score |-> best, counter |-> counter + 1,
          early_stop |-> early]

(***************************************************************************)
(* Splitting                                                               *)
(***************************************************************************)
Range(s) == {s[i] : i \in DOMAIN s}

\* the product rounded up instead of truncated
IntTrunc_Ceil(n, r) == (n * r + RatioDen - 1) \div RatioDen

\* int(n * ratio): the product of a count and a ratio, truncated toward zero
IntTrunc(n, r) ==
    IF n * r >= 0 THEN (n * r) \div RatioDen
    ELSE 0 - ((0 - (n * r)) \div RatioDen)

\* Python's normalisation of a slice bound i for a sequence of length n
SliceBound(i, n) == IF i < 0 THEN Max(i + n, 0) ELSE Min(i, n)

\* s[lo:hi] with Python's semantics (0-based bounds, negative bounds count
\* from the end, out-of-range bounds are clipped, lo >= hi gives nothing)
PySlice(s, lo, hi) ==
    LET a == SliceBound(lo, Len(s))
        b == SliceBound(hi, Len(s))
    IN  IF a < b THEN [i \in 1..(b - a) |-> s[a + i]] ELSE <<>>

\* the assertion without abs(): sums below 1 pass
RatiosAccepted_NoAbs(tr, va, te) ==
    ((tr + va + te) - RatioDen) * 1000000 < RatioDen

\* assert abs(train_ratio + val_ratio + test_ratio - 1.0) < 1e-6
RatiosAccepted(tr, va, te) ==
    Abs((tr + va + te) - RatioDen) * 1000000 < RatioDen

\* np.where(labels_np == label)[0]: the nodes of a class, ascending
ClassIndices(lbls, c) ==
    SelectSeq([i \in 1..Len(lbls) |-> i], LAMBDA i : lbls[i] = c)

\* np.random.shuffle / np.random.permutation: the order the seeded
\* generator produces, here any permutation p of the positions
Shuffle(s, p) == [i \in 1..Len(s) |-> s[p[i]]]

\* the three slices taken from one (shuffled) index array
SliceThree(idx, tr, va) ==
    LET n == Len(idx)
        train_end == IntTrunc(n, tr)
        val_end == train_end + IntTrunc(n, va)
    IN  [train |-> Range(PySlice(idx, 0, train_end)),
         val |-> Range(PySlice(idx, train_end, val_end)),
         test |-> Range(PySlice(idx, val_end, n))]

\* create_stratified_split after its assertion: p0 and p1 are the shuffles
\* of class 0 and class 1 (a class without nodes contributes nothing)
create_stratified_split(lbls, tr, va, p0, p1) ==
    LET s0 == SliceThree(Shuffle(ClassIndices(lbls, 0), p0), tr, va)
        s1 == SliceThree(Shuffle(ClassIndices(lbls, 1), p1), tr, va)
    IN  [train |-> s0.train \cup s1.train,
         val |-> s0.val \cup s1.val,
         test |-> s0.test \cup s1.test]

\* create_train_val_test_split after its assertion: p is the permutation
create_train_val_test_split(num_nodes, tr, va, p) ==
    SliceThree(Shuffle([i \in 1..num_nodes |-> i], p), tr, va)

ClassCount(lbls, c) == Len(ClassIndices(lbls, c))

\* FraudDetectionTrainer.create_splits(train_ratio, val_ratio, test_ratio)
CreateSplitsCall(tr, va, te) ==
    /\ train_ratio' = tr
    /\ val_ratio' = va
    /\ test_ratio' = te
    /\ IF RatiosAccepted(tr, va, te)
       THEN \E p0 \in Permutations(1..ClassCount(labels, 0)),
               p1 \in Permutations(1..ClassCount(labels, 1)) :
              LET m == create_stratified_split(labels, tr, va, p0, p1)
              IN  /\ train_mask' = m.train
                  /\ val_mask' = m.val
                  /\ test_mask' = m.test
                  /\ split_fn' = "stratified"
                  /\ phase' = "SplitCreated"
                  /\ error' = "none"
       ELSE /\ phase' = "ConfigError"
            /\ error' = "AssertionError"
            /\ UNCHANGED <<train_mask, val_mask, test_mask, split_fn>>
    /\ UNCHANGED <<labels, criterion, num_epochs, patience, save_best,
                   model_params, optimizer_state, ckpt_file>>
    /\ UNCHANGED trainLoopVars

\* a caller of the trainer API passing three ratios
CreateSplits == \E tr \in Ratios, va \in Ratios, te \in Ratios :
    /\ phase = "Initialized"
    /\ CreateSplitsCall(tr, va, te)
    /\ UNCHANGED <<graphVars, dataVars, metricsVars, managerVars,
                   encoderVars>>

\* main(): --train-ratio and --val-ratio come from the command line and
\* test_ratio is computed as 1.0 - train_ratio - val_ratio
Main == \E tr \in Ratios, va \in Ratios :
    /\ phase = "Initialized"
    /\ CreateSplitsCall(tr, va, RatioDen - tr - va)
    /\ UNCHANGED <<graphVars, dataVars, metricsVars, managerVars,
                   encoderVars>>

\* a direct call of create_train_val_test_split(len(labels), ...); the
\* returned masks are kept in the mask variables, the trainer does not
\* use them
RandomSplit == \E tr \in Ratios, va \in Ratios, te \in Ratios :
    /\ phase = "Initialized"
    /\ train_ratio' = tr
    /\ val_ratio' = va
    /\ test_ratio' = te
    /\ IF RatiosAccepted(tr, va, te)
       THEN \E p \in Permutations(1..Len(labels)) :
              LET m == create_train_val_test_split(Len(labels), tr, va, p)
              IN  /\ train_mask' = m.train
                  /\ val_mask' = m.val
                  /\ test_mask' = m.test
                  /\ split_fn' = "random"
                  /\ phase' = "SplitReturned"
                  /\ error' = "none"
       ELSE /\ phase' = "ConfigError"
            /\ error' = "AssertionError"
            /\ UNCHANGED <<train_mask, val_mask, test_mask, split_fn>>
    /\ UNCHANGED <<labels, criterion, num_epochs, patience, save_best,
                   model_params, optimizer_state, ckpt_file>>
    /\ UNCHANGED trainLoopVars
    /\ UNCHANGED <<graphVars, dataVars, metricsVars, managerVars,
                   encoderVars>>

(***************************************************************************)
(* Model, optimizer and loss                                               *)
(***************************************************************************)
NoCriterion == [kind |-> "none", num |-> 0, den |-> 1]

\* FraudDetectionTrainer.build_model: a fresh model
BuildModel ==
    /\ phase = "SplitCreated"
    /\ phase' = "ModelBuilt"
    /\ model_params' = 0
    /\ error' = "none"
    /\ UNCHANGED <<criterion, num_epochs, patience, save_best,
                   optimizer_state, ckpt_file>>
    /\ UNCHANGED splitVars
    /\ UNCHANGED trainLoopVars
    /\ UNCHANGED <<graphVars, dataVars, metricsVars, managerVars,
                   encoderVars>>

\* labels[mask]: the labels of the nodes of a mask, in node order
MaskedLabels(lbls, mask) ==
    LET sel == SelectSeq([i \in 1..Len(lbls) |-> i], LAMBDA i : i \in mask)
    IN  [i \in 1..Len(sel) |-> lbls[sel[i]]]

\* torch.unique(labels): the distinct values, ascending
UniqueSorted(lbls) ==
    SelectSeq(<<0, 1>>, LAMBDA c : ClassCount(lbls, c) > 0)

\* compute_class_weights: weights[i] = len(labels) / (len(unique) * counts[i])
\* for the i-th distinct label, kept as the fraction num/den
compute_class_weights(lbls) ==
    LET unique == UniqueSorted(lbls)
    IN  [i \in 1..Len(unique) |->
            [num |-> Len(lbls),
             den |-> Len(unique) * ClassCount(lbls, unique[i])]]

\* the quotient taken the other way round
PosWeight_Inverted(w) ==
    [num |-> w[1].num * w[2].den, den |-> w[1].den * w[2].num]

\* class_weights[1] / class_weights[0] (Python indices), as a fraction
PosWeight(w) == [num |-> w[2].num * w[1].den, den |-> w[2].den * w[1].num]

\* FraudDetectionTrainer.setup_training(use_class_weights)
SetupTraining == \E use_class_weights \in BOOLEAN :
    /\ phase = "ModelBuilt"
    /\ optimizer_state' = 0
    /\ IF use_class_weights
       THEN LET w == compute_class_weights(MaskedLabels(labels, train_mask))
            IN  IF Len(w) < 2
                THEN \* class_weights[1] raises IndexError
                     /\ phase' = "Failed"
                     /\ error' = "IndexError"
                     /\ UNCHANGED criterion
                ELSE /\ criterion' = [kind |-> "weighted",
                                      num |-> PosWeight(w).num,
                                      den |-> PosWeight(w).den]
                     /\ phase' = "Ready"
                     /\ error' = "none"
       ELSE /\ criterion' = [kind |-> "unweighted", num |-> 1, den |-> 1]
            /\ phase' = "Ready"
            /\ error' = "none"
    /\ UNCHANGED <<num_epochs, patience, save_best, model_params, ckpt_file>>
    /\ UNCHANGED splitVars
    /\ UNCHANGED trainLoopVars
    /\ UNCHANGED <<graphVars, dataVars, metricsVars, managerVars,
                   encoderVars>>

(***************************************************************************)
(* Checkpoint save and load                                                *)
(***************************************************************************)
\* save_checkpoint: the file at the path after torch.save has returned
save_checkpoint(model, opt, ep, f1) == CheckpointDict(ep, model, opt, f1)

\* the step of load_checkpoint at which it raises, or "ok"
LoadFailure(f) ==
    IF f.kind # "complete" THEN "torch.load"
    ELSE IF "model_state_dict" \notin f.keys THEN "model_state_dict"
    ELSE IF "optimizer_state_dict" \notin f.keys THEN "optimizer_state_dict"
    ELSE IF ~f.opt_ok THEN "optimizer.load_state_dict"
    ELSE IF "epoch" \notin f.keys THEN "epoch"
    ELSE IF "metrics" \notin f.keys THEN "metrics"
    ELSE "ok"

\* the model has been overwritten once model.load_state_dict has run
ModelLoadedAt(step) ==
    step \in {"optimizer_state_dict", "optimizer.load_state_dict",
              "epoch", "metrics", "ok"}

\* the optimizer has been overwritten once optimizer.load_state_dict has run
OptimizerLoadedAt(step) == step \in {"epoch", "metrics", "ok"}

\* load_checkpoint(model, optimizer, filepath)
LoadCheckpoint ==
    LET step == LoadFailure(ckpt_file)
    IN  /\ phase = "Ready"
        /\ model_params' = IF ModelLoadedAt(step)
                           THEN ckpt_file.model_state_dict ELSE model_params
        /\ optimizer_state' = IF OptimizerLoadedAt(step)
                              THEN ckpt_file.optimizer_state_dict
                              ELSE optimizer_state
        /\ phase' = IF step = "ok" THEN "Loaded" ELSE "LoadFailed"
        /\ error' = IF step = "ok" THEN "none" ELSE step
        /\ UNCHANGED <<criterion, num_epochs, patience, save_best, ckpt_file>>
        /\ UNCHANGED splitVars
        /\ UNCHANGED trainLoopVars
    /\ UNCHANGED <<graphVars, dataVars, metricsVars, managerVars,
                   encoderVars>>

\* a direct call save_checkpoint(model, optimizer, epoch, metrics, filepath)
SaveCheckpoint == \E ep \in 1..MaxEpochs, f1 \in Scores :
    /\ phase = "Ready"
    /\ ckpt_log = <<>>
    /\ ckpt_file' = save_checkpoint(model_params, optimizer_state, ep, f1)
    /\ ckpt_log' = Append(ckpt_log, <<ep, f1>>)
    /\ UNCHANGED <<phase, error, criterion, num_epochs, patience, save_best,
                   model_params, optimizer_state, epoch, best_val_f1,
                   best_epoch, history, es_best_score, es_counter,
                   es_early_stop, epoch_log>>
    /\ UNCHANGED splitVars
    /\ UNCHANGED <<graphVars, dataVars, metricsVars, managerVars,
                   encoderVars>>

\* the same call interrupted (process killed, disk full, serialisation
\* error) after torch.save has opened the file
SaveCheckpointInterrupted ==
    /\ phase = "Ready"
    /\ ckpt_log = <<>>
    /\ ckpt_file' = PartialFile
    /\ phase' = "SaveFailed"
    /\ error' = "IOError"
    /\ UNCHANGED <<criterion, num_epochs, patience, save_best,
                   model_params, optimizer_state>>
    /\ UNCHANGED splitVars
    /\ UNCHANGED trainLoopVars
    /\ UNCHANGED <<graphVars, dataVars, metricsVars, managerVars,
                   encoderVars>>

(***************************************************************************)
(* Forward passes: src/src/models/graphsage.py, gat.py, rgcn.py            *)
(*                                                                         *)
(* Tensors are objects.  The memory of a forward pass is the graph (the    *)
(* tensors of FraudDetectionTrainer.data, reached by store and attribute)   *)
(* and the tensors the pass allocates (reached by a name).  An operation   *)
(* either allocates a tensor or writes through a reference; a write        *)
(* through a reference into the graph changes the graph.  The value of an  *)
(* embedding row is abstracted to the node it belongs to, <<type, index>>. *)
(***************************************************************************)
\* metadata[0] and metadata[1] of the HeteroData, in insertion order
NodeTypeSeq == <<"account", "merchant", "device">>
EdgeTypeSeq ==
    <<<<"account", "transacts_with", "merchant">>,
      <<"merchant", "rev_transacts_with", "account">>,
      <<"account", "uses", "device">>,
      <<"device", "used_by", "account">>,
      <<"account", "shares", "device">>,
      <<"device", "shared_by", "account">>>>

DataRef(store, attr) == <<"data", store, attr>>
TmpRef(name) == <<"tmp", name>>
Memory(graph) == [data |-> graph, tmp |-> <<>>]

Read(mem, ref) ==
    IF ref[1] = "data" THEN mem.data[ref[2]][ref[3]] ELSE mem.tmp[ref[2]]
Write(mem, ref, value) ==
    IF ref[1] = "data"
    THEN [mem EXCEPT !.data[ref[2]][ref[3]] = value]
    ELSE [mem EXCEPT !.tmp = (ref[2] :> value) @@ @]

\* tensor.clone(): a new tensor with the content of the old one
clone_Alias(mem, ref, name) == [mem |-> mem, ref |-> ref]
clone(mem, ref, name) ==
    [mem |-> Write(mem, TmpRef(name), Read(mem, ref)), ref |-> TmpRef(name)]

\* self.input_projections[node_type](x): a new tensor, one row per node
Linear(x, node_type) == [i \in DOMAIN x |-> <<node_type, i - 1>>]

\* the projected x_dict, the first statement of each forward()
ProjectInputs(mem) ==
    [t \in {NodeTypeSeq[k] : k \in DOMAIN NodeTypeSeq} |->
        Linear(Read(mem, DataRef(t, "x")), t)]

\* data.edge_index_dict: the edge_index tensors themselves, by relation
EdgeIndexDict ==
    [rel \in {EdgeTypeSeq[k][2] : k \in DOMAIN EdgeTypeSeq} |->
        DataRef(rel, "edge_index")]

\* adjusted_edge_index[0] += src_offset; adjusted_edge_index[1] += dst_offset
AddOffsets(edge_index, src_offset, dst_offset) ==
    [i \in DOMAIN edge_index |->
        <<edge_index[i][1] + src_offset, edge_index[i][2] + dst_offset>>]

\* the offsets of the node types in the concatenated feature matrix
NodeTypeOffsets(x_dict) ==
    LET RECURSIVE Before(_)
        Before(k) == IF k = 0 THEN 0
                     ELSE Len(x_dict[NodeTypeSeq[k]]) + Before(k - 1)
    IN  [t \in DOMAIN x_dict |->
            Before((CHOOSE k \in DOMAIN NodeTypeSeq : NodeTypeSeq[k] = t) - 1)]

\* HeteroRGCN._hetero_to_homo
hetero_to_homo(mem, x_dict, edge_index_dict) ==
    LET node_type_offsets == NodeTypeOffsets(x_dict)
        RECURSIVE CatX(_)
        CatX(k) == IF k = 0 THEN <<>>
                   ELSE CatX(k - 1) \o x_dict[NodeTypeSeq[k]]
        RECURSIVE Edges(_, _, _, _)
        Edges(m, k, edge_index, edge_type) ==
            IF k > Len(EdgeTypeSeq)
            THEN [x |-> CatX(Len(NodeTypeSeq)), edge_index |-> edge_index,
                  edge_type |-> edge_type,
                  node_type_offsets |-> node_type_offsets, mem |-> m]
            ELSE LET et == EdgeTypeSeq[k]
                     adjusted == clone(m, edge_index_dict[et[2]], et[2])
                     written == Write(adjusted.mem, adjusted.ref,
                                    AddOffsets(Read(adjusted.mem, adjusted.ref),
                                               node_type_offsets[et[1]],
                                               node_type_offsets[et[3]]))
                     adjusted_edge_index == Read(written, adjusted.ref)
                 IN  Edges(written, k + 1, edge_index \o adjusted_edge_index,
                           edge_type \o [i \in DOMAIN adjusted_edge_index |->
                                            k - 1])
    IN  Edges(mem, 1, <<>>, <<>>)

\* the slices taken from the start of the matrix
homo_to_hetero_FromStart(x, node_type_offsets, node_counts) ==
    [t \in DOMAIN node_type_offsets |-> SubSeq(x, 1, node_counts[t])]

\* HeteroRGCN._homo_to_hetero: x[start:end] per node type
homo_to_hetero(x, node_type_offsets, node_counts) ==
    [t \in DOMAIN node_type_offsets |->
        SubSeq(x, node_type_offsets[t] + 1,
               node_type_offsets[t] + node_counts[t])]

\* HeteroRGCN.forward: projection, flattening, the R-GCN layers (each layer,
\* batch norm, relu and dropout allocates its result), splitting
HeteroRGCN_forward(mem) ==
    LET x_dict == ProjectInputs(mem)
        node_counts == [t \in DOMAIN x_dict |-> Len(x_dict[t])]
        homo == hetero_to_homo(mem, x_dict, EdgeIndexDict)
    IN  [mem |-> homo.mem,
         x_dict |-> homo_to_hetero(homo.x, homo.node_type_offsets,
                                   node_counts)]

\* HeteroGraphSAGE.forward and HeteroGAT.forward: projection, then layers
\* whose results (conv, batch norm, activation, dropout) are new tensors
\* put into new dicts
HeteroGraphSAGE_forward(mem) == [mem |-> mem, x_dict |-> ProjectInputs(mem)]
HeteroGAT_forward(mem) == [mem |-> mem, x_dict |-> ProjectInputs(mem)]

ModelTypes == {"graphsage", "gat", "rgcn"}

\* self.model(self.data.x_dict, self.data.edge_index_dict): the graph after
\* one call (the tensors the pass allocated are dropped)
ForwardPass(mt, graph) ==
    (CASE mt = "graphsage" -> HeteroGraphSAGE_forward(Memory(graph))
       [] mt = "gat" -> HeteroGAT_forward(Memory(graph))
       [] mt = "rgcn" -> HeteroRGCN_forward(Memory(graph))).mem.data

\* the graph after n calls in a row
RECURSIVE ForwardPasses(_, _, _)
ForwardPasses(mt, graph, n) ==
    IF n = 0 THEN graph ELSE ForwardPasses(mt, ForwardPass(mt, graph), n - 1)


(***************************************************************************)
(* The training loop                                                       *)
(***************************************************************************)
\* FraudDetectionTrainer.train(save_best) up to the first iteration: the
\* EarlyStopping object and the locals are created
StartTrain == \E sb \in BOOLEAN :
    /\ phase = "Ready"
    /\ save_best' = sb
    /\ es_best_score' = NoScore
    /\ es_counter' = 0
    /\ es_early_stop' = FALSE
    /\ best_val_f1' = InitBestValF1
    /\ best_epoch' = 0
    /\ history' = <<>>
    /\ epoch' = 0
    /\ phase' = IF num_epochs >= 1 THEN "Training" ELSE "Done"
    /\ error' = "none"
    /\ UNCHANGED <<criterion, num_epochs, patience, model_params,
                   optimizer_state, ckpt_file, ckpt_log,
                   epoch_log>>
    /\ UNCHANGED splitVars
    /\ UNCHANGED <<graphVars, dataVars, metricsVars, managerVars,
                   encoderVars>>

\* evaluate_epoch(mask) raises when compute_metrics cannot unpack
\* confusion_matrix(...).ravel() into four values: for a partition without
\* nodes, and for a partition whose labels are all one class when the model
\* predicts that class for each of its nodes (one_label)
EvaluateRaises(mask, one_label) ==
    \/ mask = {}
    \/ one_label /\ Len(UniqueSorted(MaskedLabels(labels, mask))) = 1

\* val_metrics['f1'] > best_val_f1
NewBest(f1, best) == f1 > best

\* train_epoch on a model and optimizer in the given states: the loss is
\* criterion(logits[self.train_mask], y[self.train_mask]), followed by
\* loss.backward() and one optimizer.step()
train_epoch_AllNodes(params, optimizer) ==
    [call |-> "train_epoch", loss_nodes |-> DOMAIN labels,
     params |-> params + 1, optimizer |-> optimizer + 1]

train_epoch(params, optimizer) ==
    [call |-> "train_epoch", loss_nodes |-> train_mask,
     params |-> params + 1, optimizer |-> optimizer + 1]

\* evaluate_epoch(mask) under torch.no_grad() with the model in eval mode:
\* no backward pass and no optimizer call
evaluate_epoch(mask, params, optimizer) ==
    [call |-> "evaluate_epoch", mask |-> mask,
     params |-> params, optimizer |-> optimizer]

\* the calls of one iteration of train() in order, each with the state of
\* the model and the optimizer it leaves: train_epoch, evaluate_epoch on
\* the training mask and, unless that raised, on the validation mask
EpochCalls(train_raises) ==
    LET step  == train_epoch(model_params, optimizer_state)
        first == evaluate_epoch(train_mask, step.params, step.optimizer)
        second == evaluate_epoch(val_mask, first.params, first.optimizer)
    IN  IF train_raises THEN <<step, first>> ELSE <<step, first, second>>

\* the state the last call of a sequence of calls leaves
Last(calls) == calls[Len(calls)]

\* the two evaluations of an iteration when they meet the given predictions:
\* whether evaluate_epoch raises on the training mask, and on the validation
\* mask if it is reached
EpochOutcome(train_one, val_one) ==
    [train_raises |-> EvaluateRaises(train_mask, train_one),
     val_raises |-> /\ ~EvaluateRaises(train_mask, train_one)
                    /\ EvaluateRaises(val_mask, val_one)]

\* the values val_metrics['f1'] can take: none is computed (and the value
\* is not used) when an evaluation raises
EpochScores(outcome) ==
    IF outcome.train_raises \/ outcome.val_raises THEN {InitBestValF1}
    ELSE Scores

\* one iteration of the loop of train(): train_epoch (the gradient step),
\* the two evaluations, history, the best-model checkpoint, early stopping;
\* f1 is val_metrics['f1'] of this epoch.  train_epoch and each evaluate_epoch
\* call the model once on the graph.
TrainEpoch ==
 \E outcome \in {EpochOutcome(train_one, val_one) :
                    train_one \in BOOLEAN, val_one \in BOOLEAN} :
  /\ phase = "Training"
  /\ data' = ForwardPasses(model_type, data,
                           IF outcome.train_raises THEN 2 ELSE 3)
  /\ epoch_log' = EpochCalls(outcome.train_raises)
  /\ model_params' = Last(epoch_log').params
  /\ optimizer_state' = Last(epoch_log').optimizer
  /\ \E f1 \in EpochScores(outcome) :
    /\ epoch' = epoch + 1
    /\ IF outcome.train_raises \/ outcome.val_raises
       THEN /\ phase' = "Failed"
            /\ error' = "ValueError"
            /\ UNCHANGED <<best_val_f1, best_epoch, history, es_best_score,
                           es_counter, es_early_stop, ckpt_file, ckpt_log>>
       ELSE LET es == EarlyStoppingCall(es_best_score, es_counter,
                                        es_early_stop, f1, patience, MinDelta)
                saves == NewBest(f1, best_val_f1) /\ save_best
            IN  /\ history' = Append(history, f1)
                /\ best_val_f1' = IF NewBest(f1, best_val_f1)
                                  THEN f1 ELSE best_val_f1
                /\ best_epoch' = IF NewBest(f1, best_val_f1)
                                 THEN epoch' ELSE best_epoch
                /\ ckpt_file' = IF saves
                                THEN save_checkpoint(model_params',
                                        optimizer_state', epoch', f1)
                                ELSE ckpt_file
                /\ ckpt_log' = IF saves
                               THEN Append(ckpt_log, <<epoch', f1>>)
                               ELSE ckpt_log
                /\ es_best_score' = es.best_score
                /\ es_counter' = es.counter
                /\ es_early_stop' = es.early_stop
                /\ phase' = IF es.stop \/ epoch' = num_epochs
                            THEN "Done" ELSE "Training"
                /\ error' = "none"
    /\ UNCHANGED <<criterion, num_epochs, patience, save_best>>
    /\ UNCHANGED splitVars
    /\ UNCHANGED <<graphVars, model_type, metricsVars, managerVars,
                   encoderVars>>

\* an iteration whose save_checkpoint call is interrupted after torch.save
\* has opened the file: the exception leaves train()
TrainEpochSaveInterrupted == \E f1 \in Scores :
    /\ phase = "Training"
    /\ ~EvaluateRaises(train_mask, FALSE)
    /\ ~EvaluateRaises(val_mask, FALSE)
    /\ NewBest(f1, best_val_f1)
    /\ save_best
    /\ epoch' = epoch + 1
    /\ epoch_log' = EpochCalls(FALSE)
    /\ model_params' = Last(epoch_log').params
    /\ optimizer_state' = Last(epoch_log').optimizer
    /\ history' = Append(history, f1)
    /\ best_val_f1' = f1
    /\ best_epoch' = epoch'
    /\ ckpt_file' = PartialFile
    /\ phase' = "Failed"
    /\ error' = "IOError"
    /\ data' = ForwardPasses(model_type, data, 3)
    /\ UNCHANGED <<criterion, num_epochs, patience, save_best,
                   es_best_score, es_counter, es_early_stop, ckpt_log>>
    /\ UNCHANGED splitVars
    /\ UNCHANGED <<graphVars, model_type, metricsVars, managerVars,
                   encoderVars>>

\* evaluate_final when the three evaluations meet the given predictions:
\* whether one of them raises, and the number of evaluate_epoch calls made
FinalOutcome(train_one, val_one, test_one) ==
    [raises |-> \/ EvaluateRaises(train_mask, train_one)
                \/ EvaluateRaises(val_mask, val_one)
                \/ EvaluateRaises(test_mask, test_one),
     calls |-> IF EvaluateRaises(train_mask, train_one) THEN 1
               ELSE IF EvaluateRaises(val_mask, val_one) THEN 2 ELSE 3]

\* trainer.evaluate_final(): evaluate_epoch on the train, validation and test
\* masks in turn; the first one that raises ends it with the exception
EvaluateFinal ==
    /\ phase = "Done"
    /\ \E outcome \in {FinalOutcome(train_one, val_one, test_one) :
                          train_one \in BOOLEAN, val_one \in BOOLEAN,
                          test_one \in BOOLEAN} :
           /\ phase' = IF outcome.raises THEN "Failed" ELSE "Evaluated"
           /\ error' = IF outcome.raises THEN "ValueError" ELSE "none"
           /\ data' = ForwardPasses(model_type, data, outcome.calls)
    /\ UNCHANGED <<criterion, num_epochs, patience, save_best, model_params,
                   optimizer_state, ckpt_file>>
    /\ UNCHANGED splitVars
    /\ UNCHANGED trainLoopVars
    /\ UNCHANGED <<graphVars, model_type, metricsVars, managerVars,
                   encoderVars>>

\* what evaluate_model returned for one split: the metrics dictionary, whose
\* entries are not followed here
SplitMetrics == [evaluated |-> TRUE]

\* the splits of evaluate_model_all_splits in the order of its dictionary
SplitNames == <<"train", "val", "test">>

\* evaluate_model_all_splits when the three evaluations meet the given
\* predictions: a split whose mask has no node is logged and gets {}, every
\* other split is evaluated by evaluate_model (one forward pass and
\* compute_metrics, which raises as in evaluate_epoch); the first exception
\* leaves the function.  The result, and the number of evaluate_model calls.
AllSplitsOutcome(train_one, val_one, test_one) ==
    LET masks == [train |-> train_mask, val |-> val_mask,
                  test |-> test_mask]
        one   == [train |-> train_one, val |-> val_one, test |-> test_one]
        skipped(k) == masks[SplitNames[k]] = {}
        raises(k)  == /\ ~skipped(k)
                      /\ EvaluateRaises(masks[SplitNames[k]],
                                        one[SplitNames[k]])
        \* the splits reached: all before the first that raises, and it
        reached == {k \in 1..3 : \A j \in 1..(k - 1) : ~raises(j)}
    IN  [result |-> IF \E k \in 1..3 : raises(k)
                    THEN [raised |-> "ValueError"]
                    ELSE [name \in {"train", "val", "test"} |->
                             IF masks[name] = {}
                             THEN EmptyDict ELSE SplitMetrics],
         calls |-> Cardinality({k \in reached : ~skipped(k)})]

\* evaluate_model_all_splits on the trained model and the trainer's masks
EvaluateModelAllSplits ==
    /\ phase = "Done"
    /\ metrics = EmptyDict
    /\ \E outcome \in {AllSplitsOutcome(train_one, val_one, test_one) :
                          train_one \in BOOLEAN, val_one \in BOOLEAN,
                          test_one \in BOOLEAN} :
           /\ metrics' = outcome.result
           /\ data' = ForwardPasses(model_type, data, outcome.calls)
    /\ UNCHANGED <<y_true, y_pred, y_prob, metric, best_found, model_type>>
    /\ UNCHANGED <<trainerVars, graphVars, managerVars,
                   encoderVars>>

(***************************************************************************)
(* Graph construction: src/src/graph/build_graph.py (GraphBuilder)         *)
(*                                                                         *)
(* Tables.  A fetched table is the sequence of its rows in query order.    *)
(* The numeric source columns of one row hold one value, the field num     *)
(* (risk_score, total_transactions, ... of an account row are all num);    *)
(* the binary or encoded column of a node row is a field of its own.       *)
(* Null is SQL NULL, which pandas holds as NaN.                            *)
(*                                                                         *)
(* Feature matrices.  A matrix is a sequence of rows, a row a sequence of  *)
(* cells; column j here is Python column j-1.  A cell records the source   *)
(* value and the transforms applied to it: raw (Null is NaN), log (log1p   *)
(* applied), std (standardised with the mean and standard deviation of     *)
(* its column).  log1p is strictly increasing, so two cells of one column  *)
(* are equal exactly when their raw values are.  Node and edge indices     *)
(* are 0-based as in the code; an edge_index tensor is the sequence of its *)
(* columns <<source, destination>>.                                        *)
(***************************************************************************)
MaxRows == 2         \* most rows in a relation table
IdPool == {1, 2}     \* identifiers found in the tables
Null == -1           \* SQL NULL / NaN, which fillna(0) replaces
Values == {Null, 0, 1}

Cell(v) == [raw |-> v, log |-> FALSE, std |-> FALSE]

\* DataFrame.fillna(0)
fillna(m) ==
    [i \in DOMAIN m |->
        [j \in DOMAIN m[i] |->
            IF m[i][j].raw = Null THEN [m[i][j] EXCEPT !.raw = 0]
            ELSE m[i][j]]]

\* features[:, j] = np.log1p(features[:, j]) for the columns in cols
log1p(m, cols) ==
    [i \in DOMAIN m |->
        [j \in DOMAIN m[i] |->
            IF j \in cols THEN [m[i][j] EXCEPT !.log = TRUE] ELSE m[i][j]]]

\* features[:, j].std() > 0: false for NaN (a NaN cell or no rows) and for
\* a constant column
StdPositive(m, j) ==
    /\ \A i \in DOMAIN m : m[i][j].raw # Null
    /\ \E i, k \in DOMAIN m : m[i][j].raw # m[k][j].raw

\* for the columns in cols: mean = col.mean(); std = col.std();
\* if std > 0: col = (col - mean) / std
standardize(m, cols) ==
    [i \in DOMAIN m |->
        [j \in DOMAIN m[i] |->
            IF j \in cols /\ StdPositive(m, j)
            THEN [m[i][j] EXCEPT !.std = TRUE] ELSE m[i][j]]]

\* {id: idx for idx, id in enumerate(column)}: a later row overwrites the
\* entry of an earlier row with the same id
Enumerate_OneBased(ids) ==
    [id \in {ids[i] : i \in DOMAIN ids} |->
        CHOOSE i \in DOMAIN ids :
            ids[i] = id /\ \A k \in DOMAIN ids : ids[k] = id => k <= i]
Enumerate(ids) ==
    [id \in {ids[i] : i \in DOMAIN ids} |->
        (CHOOSE i \in DOMAIN ids :
            ids[i] = id /\ \A k \in DOMAIN ids : ids[k] = id => k <= i) - 1]

create_node_mappings(accounts, merchants, devices) ==
    [account |-> Enumerate([i \in DOMAIN accounts |-> accounts[i].account_id]),
     merchant |-> Enumerate([i \in DOMAIN merchants |-> merchants[i].merchant_id]),
     device |-> Enumerate([i \in DOMAIN devices |-> devices[i].device_id])]

\* columns risk_score, total_transactions, total_amount, account_age_days,
\* fraud_flag
build_account_features(accounts) ==
    LET features == fillna([i \in DOMAIN accounts |->
                        <<Cell(accounts[i].num), Cell(accounts[i].num),
                          Cell(accounts[i].num), Cell(accounts[i].num),
                          Cell(accounts[i].fraud_flag)>>])
    IN  standardize(log1p(features, {2, 3, 4}), 1..4)

\* columns fraud_rate, total_transactions, avg_transaction_amount,
\* risk_level_encoded
build_merchant_features(merchants) ==
    LET features == fillna([i \in DOMAIN merchants |->
                        <<Cell(merchants[i].num), Cell(merchants[i].num),
                          Cell(merchants[i].num),
                          Cell(merchants[i].risk_level_encoded)>>])
    IN  standardize(log1p(features, {2, 3}), 1..3)

\* columns fraud_rate, total_users, total_transactions, is_shared, risk_score
build_device_features(devices) ==
    LET features == fillna([i \in DOMAIN devices |->
                        <<Cell(devices[i].num), Cell(devices[i].num),
                          Cell(devices[i].num), Cell(devices[i].is_shared),
                          Cell(devices[i].num)>>])
    IN  standardize(log1p(features, {2, 3}), {1, 2, 3, 5})

\* Series.isin(mapping): membership in the keys of the dict
isin(id, mapping) == id \in DOMAIN mapping

\* account -> merchant edges; columns transaction_amount, transaction_hour,
\* transaction_day_of_week
build_transaction_edges(transactions, mappings) ==
    LET Valid(t) == /\ isin(t.account_id, mappings.account)
                    /\ isin(t.merchant_id, mappings.merchant)
        valid_txns == SelectSeq(transactions, Valid)
        features == fillna([i \in DOMAIN valid_txns |->
                        <<Cell(valid_txns[i].num), Cell(valid_txns[i].num),
                          Cell(valid_txns[i].num)>>])
    IN  [edge_index |-> [i \in DOMAIN valid_txns |->
                            <<mappings.account[valid_txns[i].account_id],
                              mappings.merchant[valid_txns[i].merchant_id]>>],
         edge_features |-> standardize(log1p(features, {1}), 1..3),
         edge_labels |-> [i \in DOMAIN valid_txns |-> valid_txns[i].is_fraud]]

\* account -> device edges; column transaction_amount
build_device_edges(transactions, mappings) ==
    LET Valid(t) == /\ isin(t.account_id, mappings.account)
                    /\ isin(t.device_id, mappings.device)
                    /\ t.device_id # Null
        valid_txns == SelectSeq(transactions, Valid)
        features == fillna([i \in DOMAIN valid_txns |->
                        <<Cell(valid_txns[i].num)>>])
    IN  [edge_index |-> [i \in DOMAIN valid_txns |->
                            <<mappings.account[valid_txns[i].account_id],
                              mappings.device[valid_txns[i].device_id]>>],
         edge_features |-> log1p(features, {1})]

\* account -> device edges of the shared_device table; columns
\* transaction_count, fraud_count
build_shared_device_edges_DeviceFirst(shared_devices, mappings) ==
    LET Valid(t) == /\ isin(t.account_id, mappings.account)
                    /\ isin(t.device_id, mappings.device)
        valid_shared == SelectSeq(shared_devices, Valid)
        features == [i \in DOMAIN valid_shared |->
                        <<Cell(valid_shared[i].num), Cell(valid_shared[i].num)>>]
    IN  [edge_index |-> [i \in DOMAIN valid_shared |->
                            <<mappings.device[valid_shared[i].device_id],
                              mappings.account[valid_shared[i].account_id]>>],
         edge_features |-> log1p(features, {1, 2})]
build_shared_device_edges(shared_devices, mappings) ==
    LET Valid(t) == /\ isin(t.account_id, mappings.account)
                    /\ isin(t.device_id, mappings.device)
        valid_shared == SelectSeq(shared_devices, Valid)
        features == [i \in DOMAIN valid_shared |->
                        <<Cell(valid_shared[i].num), Cell(valid_shared[i].num)>>]
    IN  [edge_index |-> [i \in DOMAIN valid_shared |->
                            <<mappings.account[valid_shared[i].account_id],
                              mappings.device[valid_shared[i].device_id]>>],
         edge_features |-> log1p(features, {1, 2})]

\* torch.stack([edge_index[1], edge_index[0]])
StackReversed_NoSwap(edge_index) == edge_index
StackReversed(edge_index) ==
    [i \in DOMAIN edge_index |-> <<edge_index[i][2], edge_index[i][1]>>]

\* tensor.float().mean(): the sum over the count (NaN when the count is 0)
Sum(s) == LET RECURSIVE Acc(_) 
              Acc(n) == IF n = 0 THEN 0 ELSE s[n] + Acc(n - 1)
          IN  Acc(Len(s))
Mean(s) == [num |-> Sum(s), den |-> Len(s)]

\* the HeteroData assembled by build_hetero_graph (lines 431-468)
HeteroData(db_, mappings) ==
    LET txn == build_transaction_edges(db_.transaction, mappings)
        dev == build_device_edges(db_.transaction, mappings)
        shared == build_shared_device_edges(db_.shared_device, mappings)
    IN  [account |-> [x |-> build_account_features(db_.account),
                      y |-> [i \in DOMAIN db_.account |->
                                db_.account[i].fraud_flag]],
         merchant |-> [x |-> build_merchant_features(db_.merchant)],
         device |-> [x |-> build_device_features(db_.device)],
         transacts_with |-> [edge_index |-> txn.edge_index,
                             edge_attr |-> txn.edge_features,
                             edge_label |-> txn.edge_labels],
         rev_transacts_with |-> [edge_index |-> StackReversed(txn.edge_index)],
         uses |-> [edge_index |-> dev.edge_index,
                   edge_attr |-> dev.edge_features],
         used_by |-> [edge_index |-> StackReversed(dev.edge_index)],
         shares |-> [edge_index |-> shared.edge_index,
                     edge_attr |-> shared.edge_features],
         shared_by |-> [edge_index |-> StackReversed(shared.edge_index),
                        edge_attr |-> shared.edge_features]]

\* self.graph_stats (lines 471-480)
GraphStats(db_, data_) ==
    [num_accounts |-> Len(db_.account),
     num_merchants |-> Len(db_.merchant),
     num_devices |-> Len(db_.device),
     num_transactions |-> Len(data_.transacts_with.edge_index),
     num_device_usage |-> Len(data_.uses.edge_index),
     num_shared_devices |-> Len(data_.shares.edge_index) * 2,
     fraud_rate |-> Mean(data_.transacts_with.edge_label),
     fraud_accounts |-> Sum(data_.account.y)]

\* pd.DataFrame(rows) of an empty result has no columns, so the first
\* column access on it raises KeyError
NodeTableEmpty(db_) ==
    db_.account = <<>> \/ db_.merchant = <<>> \/ db_.device = <<>>
EdgeTableEmpty(db_) ==
    db_.transaction = <<>> \/ db_.shared_device = <<>>

\* builder = GraphBuilder(); graph_data = builder.build_hetero_graph()
BuildHeteroGraph ==
    /\ build_phase = "start"
    /\ IF NodeTableEmpty(db)
       THEN /\ build_phase' = "KeyError"
            /\ UNCHANGED <<node_mappings, graph_stats, graph_data>>
       ELSE LET mappings == create_node_mappings(db.account, db.merchant,
                                                 db.device)
            IN  /\ node_mappings' = mappings
                /\ IF EdgeTableEmpty(db)
                   THEN /\ build_phase' = "KeyError"
                        /\ UNCHANGED <<graph_stats, graph_data>>
                   ELSE /\ graph_data' = HeteroData(db, mappings)
                        /\ graph_stats' = GraphStats(db, graph_data')
                        /\ build_phase' = "built"
    /\ UNCHANGED <<db, graph_file, mappings_file, stats_file>>
    /\ UNCHANGED trainerVars
    /\ UNCHANGED <<dataVars, metricsVars, managerVars,
                   encoderVars>>

\* a file save_graph has written
Written(content) == [exists |-> TRUE, content |-> content]

\* builder.save_graph(graph_data): three files, one after the other
SaveGraph ==
    /\ build_phase = "built"
    /\ graph_file' = Written(graph_data)
    /\ mappings_file' = Written(node_mappings)
    /\ stats_file' = Written(graph_stats)
    /\ build_phase' = "saved"
    /\ UNCHANGED <<db, node_mappings, graph_stats, graph_data>>
    /\ UNCHANGED trainerVars
    /\ UNCHANGED <<dataVars, metricsVars, managerVars,
                   encoderVars>>

\* save_graph ended by an exception or a kill after its first or second write
SaveGraphInterrupted == \E written \in 1..2 :
    /\ build_phase = "built"
    /\ graph_file' = Written(graph_data)
    /\ mappings_file' = IF written >= 2 THEN Written(node_mappings)
                                        ELSE mappings_file
    /\ UNCHANGED stats_file
    /\ build_phase' = "interrupted"
    /\ UNCHANGED <<db, node_mappings, graph_stats, graph_data>>
    /\ UNCHANGED trainerVars
    /\ UNCHANGED <<dataVars, metricsVars, managerVars,
                   encoderVars>>

\* trainer.load_graph(graph_path): torch.load of the graph file alone
LoadGraph ==
    /\ phase = "Constructed"
    /\ IF graph_file.exists
       THEN /\ data' = graph_file.content
            /\ labels' = graph_file.content.account.y
            /\ phase' = "Initialized"
            /\ error' = "none"
       ELSE /\ phase' = "Failed"
            /\ error' = "FileNotFoundError"
            /\ UNCHANGED <<data, labels>>
    /\ UNCHANGED <<train_ratio, val_ratio, test_ratio, split_fn, train_mask,
                   val_mask, test_mask, criterion, num_epochs, patience,
                   save_best, model_params, optimizer_state, ckpt_file>>
    /\ UNCHANGED trainLoopVars
    /\ UNCHANGED <<graphVars, model_type, metricsVars, managerVars,
                   encoderVars>>

(***************************************************************************)
(* Databases the builder is run on                                         *)
(***************************************************************************)
\* the ids of a node table: a primary key, in ORDER BY order
SortedIds(S) ==
    CHOOSE s \in [1..Cardinality(S) -> S] :
        \A i, k \in 1..Cardinality(S) : i < k => s[i] < s[k]

AccountTables ==
    UNION {{[i \in 1..Cardinality(S) |->
                [account_id |-> SortedIds(S)[i], num |-> n[i],
                 fraud_flag |-> f[i]]] :
                n \in [1..Cardinality(S) -> Values],
                f \in [1..Cardinality(S) -> {0, 1}]} : S \in SUBSET IdPool}
MerchantTables ==
    UNION {{[i \in 1..Cardinality(S) |->
                [merchant_id |-> SortedIds(S)[i], num |-> n[i],
                 risk_level_encoded |-> f[i]]] :
                n \in [1..Cardinality(S) -> Values],
                f \in [1..Cardinality(S) -> {0, 1}]} : S \in SUBSET IdPool}
DeviceTables ==
    UNION {{[i \in 1..Cardinality(S) |->
                [device_id |-> SortedIds(S)[i], num |-> n[i],
                 is_shared |-> f[i]]] :
                n \in [1..Cardinality(S) -> Values],
                f \in [1..Cardinality(S) -> {0, 1}]} : S \in SUBSET IdPool}

\* node tables whose values follow from the id
PlainAccounts(S) ==
    [i \in 1..Cardinality(S) |->
        [account_id |-> SortedIds(S)[i], num |-> SortedIds(S)[i] - 1,
         fraud_flag |-> SortedIds(S)[i] % 2]]
PlainMerchants(S) ==
    [i \in 1..Cardinality(S) |->
        [merchant_id |-> SortedIds(S)[i], num |-> SortedIds(S)[i] - 1,
         risk_level_encoded |-> SortedIds(S)[i] % 2]]
PlainDevices(S) ==
    [i \in 1..Cardinality(S) |->
        [device_id |-> SortedIds(S)[i], num |-> SortedIds(S)[i] - 1,
         is_shared |-> SortedIds(S)[i] % 2]]

\* transaction tables: every choice of endpoints with values that follow from
\* the row number, and every choice of values on present endpoints
TransactionsByEndpoint ==
    UNION {{[i \in 1..n |->
                [account_id |-> a[i], merchant_id |-> m[i],
                 device_id |-> d[i], num |-> i - 1, is_fraud |-> i % 2]] :
                a \in [1..n -> IdPool], m \in [1..n -> IdPool],
                d \in [1..n -> IdPool \cup {Null}]} : n \in 0..MaxRows}
TransactionsByValue ==
    UNION {{[i \in 1..n |->
                [account_id |-> 1, merchant_id |-> 1, device_id |-> 1,
                 num |-> v[i], is_fraud |-> f[i]]] :
                v \in [1..n -> Values], f \in [1..n -> {0, 1}]} :
           n \in 0..MaxRows}
PlainTransactions ==
    <<[account_id |-> 1, merchant_id |-> 1, device_id |-> 1, num |-> 0,
       is_fraud |-> 0],
      [account_id |-> 2, merchant_id |-> 2, device_id |-> Null, num |-> 1,
       is_fraud |-> 1]>>

SharedDeviceTables ==
    UNION {{[i \in 1..n |->
                [device_id |-> d[i], account_id |-> a[i], num |-> v[i]]] :
                d \in [1..n -> IdPool], a \in [1..n -> IdPool],
                v \in [1..n -> Values]} : n \in 0..MaxRows}
PlainSharedDevices ==
    <<[device_id |-> 1, account_id |-> 2, num |-> 1]>>

Database(acc, mer, dev, txn, shd) ==
    [account |-> acc, merchant |-> mer, device |-> dev, transaction |-> txn,
     shared_device |-> shd]

NonEmptyIdSets == (SUBSET IdPool) \ {{}}

\* db is a database whose account table varies
AccountDatabases ==
    \E acc \in AccountTables :
        db = Database(acc, PlainMerchants(IdPool), PlainDevices(IdPool),
                      PlainTransactions, PlainSharedDevices)

\* db is one of the databases the builder is run on: one table varies at a
\* time; the endpoints of the relation tables vary together with the sets of
\* ids the node tables hold
Databases ==
    \/ AccountDatabases
    \/ \E mer \in MerchantTables :
           db = Database(PlainAccounts(IdPool), mer, PlainDevices(IdPool),
                         PlainTransactions, PlainSharedDevices)
    \/ \E dev \in DeviceTables :
           db = Database(PlainAccounts(IdPool), PlainMerchants(IdPool), dev,
                         PlainTransactions, PlainSharedDevices)
    \/ \E A \in NonEmptyIdSets, M \in NonEmptyIdSets, D \in NonEmptyIdSets,
          txn \in TransactionsByEndpoint :
           db = Database(PlainAccounts(A), PlainMerchants(M), PlainDevices(D),
                         txn, PlainSharedDevices)
    \/ \E txn \in TransactionsByValue :
           db = Database(PlainAccounts(IdPool), PlainMerchants(IdPool),
                         PlainDevices(IdPool), txn, PlainSharedDevices)
    \/ \E A \in NonEmptyIdSets, D \in NonEmptyIdSets,
          shd \in SharedDeviceTables :
           db = Database(PlainAccounts(A), PlainMerchants(IdPool),
                         PlainDevices(D), PlainTransactions, shd)

\* a graph whose accounts carry the given labels: account i transacts with
\* merchant and device 1 or 2
LabelledDatabase(lbls) ==
    Database([i \in DOMAIN lbls |->
                 [account_id |-> i, num |-> i, fraud_flag |-> lbls[i]]],
             PlainMerchants(IdPool), PlainDevices(IdPool),
             [i \in DOMAIN lbls |->
                 [account_id |-> i, merchant_id |-> 1 + (i % 2),
                  device_id |-> 1 + (i % 2), num |-> i,
                  is_fraud |-> lbls[i]]],
             PlainSharedDevices)
LoadedGraph(lbls) ==
    HeteroData(LabelledDatabase(lbls),
               create_node_mappings(LabelledDatabase(lbls).account,
                                    LabelledDatabase(lbls).merchant,
                                    LabelledDatabase(lbls).device))

\* the trainer after __init__, before load_graph
ConstructedTrainer ==
    /\ phase = "Constructed"
    /\ error = "none"
    /\ labels = <<>>
    /\ train_ratio = 0
    /\ val_ratio = 0
    /\ test_ratio = 0
    /\ split_fn = "none"
    /\ train_mask = {}
    /\ val_mask = {}
    /\ test_mask = {}
    /\ criterion = NoCriterion
    /\ num_epochs = 1
    /\ patience = 1
    /\ save_best = TRUE
    /\ model_params = 0
    /\ optimizer_state = 0
    /\ epoch = 0
    /\ best_val_f1 = InitBestValF1
    /\ best_epoch = 0
    /\ history = <<>>
    /\ es_best_score = NoScore
    /\ es_counter = 0
    /\ es_early_stop = FALSE
    /\ ckpt_file = NoFile
    /\ ckpt_log = <<>>
    /\ epoch_log = <<>>

\* what build_graph.main() left on disk when it ran before on another
\* database: the graph, the mappings and the statistics of that build
EarlierBuild ==
    LET db_ == LabelledDatabase(<<0, 1>>)
        mappings == create_node_mappings(db_.account, db_.merchant, db_.device)
        graph == HeteroData(db_, mappings)
    IN  [graph |-> graph, mappings |-> mappings,
         stats |-> GraphStats(db_, graph)]

\* build_graph.main() on any of the databases in an empty directory, or on
\* a database whose account table varies in a directory that holds the files
\* of an earlier build; then train.py's load_graph
InitGraph ==
    /\ NoManager
    /\ NoFlatten
    /\ NoForward
    /\ ConstructedTrainer
    /\ NoGraphLoaded
    /\ NoMetricsCall
    /\ node_mappings = EmptyDict
    /\ graph_stats = EmptyDict
    /\ graph_data = EmptyDict
    /\ build_phase = "start"
    /\ \/ /\ Databases
          /\ graph_file = Absent
          /\ mappings_file = Absent
          /\ stats_file = Absent
       \/ /\ AccountDatabases
          /\ graph_file = Written(EarlierBuild.graph)
          /\ mappings_file = Written(EarlierBuild.mappings)
          /\ stats_file = Written(EarlierBuild.stats)

NextGraph ==
    \/ BuildHeteroGraph
    \/ SaveGraph
    \/ SaveGraphInterrupted
    \/ LoadGraph

SpecGraph == InitGraph /\ [][NextGraph]_vars

(***************************************************************************)
(* Metrics: src/src/training/metrics.py (FraudMetrics.compute_metrics)     *)
(*                                                                         *)
(* y_true and y_pred are the label and prediction vectors of one call,     *)
(* sequences over {0, 1} of the same positive length (the vectors of an    *)
(* empty partition belong to the evaluation paths of the trainer).  A      *)
(* metric is kept as the fraction num/den that the float approximates;     *)
(* two fractions are the same number when their cross products are equal.  *)
(* y_prob is None or an array; the array only feeds roc_auc and pr_auc,    *)
(* whose value is not computed here: an AUC entry is the except-branch     *)
(* 0.0, or AucScore when scikit-learn returned a score.                    *)
(***************************************************************************)

\* an array of probabilities, one per sample
Probs == "probs"

\* a dictionary key that was never assigned
NoKey == [key |-> FALSE]

\* a score returned by roc_auc_score / average_precision_score
AucScore == [score |-> "scikit-learn"]

Frac(n, d) == [num |-> n, den |-> d]

\* the float 0.0 (the zero_division value and the else branches)
Zero == Frac(0, 1)

\* a / b is the same number as c / d
SameNumber(a, b) == a.num * b.den = b.num * a.den

\* number of samples with label t and prediction p
CountPairs(yt, yp, t, p) ==
    Cardinality({i \in 1..Len(yt) : yt[i] = t /\ yp[i] = p})

\* sklearn unique_labels(y_true, y_pred): the labels that occur in either
\* vector, ascending
unique_labels(yt, yp) ==
    SelectSeq(<<0, 1>>, LAMBDA c :
        \/ \E i \in 1..Len(yt) : yt[i] = c
        \/ \E i \in 1..Len(yp) : yp[i] = c)

\* confusion_matrix(y_true, y_pred).ravel(): one row per label that occurs,
\* one column per label that occurs, rows first
confusion_matrix_ravel(yt, yp) ==
    LET lbls == unique_labels(yt, yp)
        n    == Len(lbls)
    IN  [k \in 1..(n * n) |->
            CountPairs(yt, yp, lbls[((k - 1) \div n) + 1],
                               lbls[((k - 1) % n) + 1])]

\* accuracy_score: the share of samples predicted correctly
accuracy_score(yt, yp) ==
    Frac(Cardinality({i \in 1..Len(yt) : yt[i] = yp[i]}), Len(yt))

\* precision_score(zero_division=0), pos_label 1: tp_sum / pred_sum
precision_score(yt, yp) ==
    LET tp_sum   == CountPairs(yt, yp, 1, 1)
        pred_sum == Cardinality({i \in 1..Len(yp) : yp[i] = 1})
    IN  IF pred_sum = 0 THEN Zero ELSE Frac(tp_sum, pred_sum)

\* recall_score(zero_division=0), pos_label 1: tp_sum / true_sum
recall_score(yt, yp) ==
    LET tp_sum   == CountPairs(yt, yp, 1, 1)
        true_sum == Cardinality({i \in 1..Len(yt) : yt[i] = 1})
    IN  IF true_sum = 0 THEN Zero ELSE Frac(tp_sum, true_sum)

\* f1_score(zero_division=0): 2 * precision * recall / (precision + recall)
f1_score(yt, yp) ==
    LET p == precision_score(yt, yp)
        r == recall_score(yt, yp)
    IN  IF p.num * r.den + r.num * p.den = 0
        THEN Zero
        ELSE Frac(2 * p.num * r.num, p.num * r.den + r.num * p.den)

\* the pairs <<roc_auc, pr_auc>> a call can leave in the dictionary.
\* roc_auc_score is undefined when y_true holds one class: depending on the
\* installed scikit-learn it raises ValueError (both entries become 0.0 in
\* the except branch) or returns a value and average_precision_score runs.
AucEntries(yt, yprob) ==
    IF yprob = None
    THEN {<<NoKey, NoKey>>}
    ELSE IF Len(UniqueSorted(yt)) = 2
         THEN {<<AucScore, AucScore>>}
         ELSE {<<Zero, Zero>>, <<AucScore, AucScore>>}

\* compute_metrics: the dictionary returned, or the exception raised by
\* unpacking the ravelled confusion matrix into four names
compute_metrics(yt, yp, auc) ==
    LET cm == confusion_matrix_ravel(yt, yp)
    IN  IF Len(cm) # 4
        THEN [raised |-> "ValueError"]
        ELSE LET tn == cm[1]
                 fp == cm[2]
                 fn == cm[3]
                 tp == cm[4]
             IN  [accuracy        |-> accuracy_score(yt, yp),
                  precision       |-> precision_score(yt, yp),
                  recall          |-> recall_score(yt, yp),
                  f1              |-> f1_score(yt, yp),
                  true_negatives  |-> tn,
                  false_positives |-> fp,
                  false_negatives |-> fn,
                  true_positives  |-> tp,
                  specificity     |-> IF tn + fp > 0
                                      THEN Frac(tn, tn + fp) ELSE Zero,
                  fpr             |-> IF fp + tn > 0
                                      THEN Frac(fp, fp + tn) ELSE Zero,
                  fnr             |-> IF fn + tp > 0
                                      THEN Frac(fn, fn + tp) ELSE Zero,
                  roc_auc         |-> auc[1],
                  pr_auc          |-> auc[2]]

\* one call of FraudMetrics.compute_metrics on the vectors at hand
ComputeMetrics ==
    /\ metrics = EmptyDict
    /\ \E auc \in AucEntries(y_true, y_prob) :
           metrics' = compute_metrics(y_true, y_pred, auc)
    /\ UNCHANGED <<y_true, y_pred, y_prob, metric, best_found>>
    /\ UNCHANGED <<trainerVars, graphVars, dataVars, managerVars,
                   encoderVars>>

\* longest vectors enumerated
MaxSamples == 4

\* the label or prediction vectors of n samples
BinaryVectors(n) == [1..n -> {0, 1}]

\* 100 samples with 11 positives, of which the first 8 are predicted
\* positive, and 2 negatives predicted positive
ExampleTrue == [i \in 1..100 |-> IF i <= 11 THEN 1 ELSE 0]

ExamplePred == [i \in 1..100 |-> IF i <= 8 \/ i \in 12..13 THEN 1 ELSE 0]

InitMetrics ==
    /\ NoManager
    /\ NoFlatten
    /\ NoForward
    /\ ConstructedTrainer
    /\ NoBuilder
    /\ NoGraphLoaded
    /\ \/ \E n \in 1..MaxSamples :
               /\ y_true \in BinaryVectors(n)
               /\ y_pred \in BinaryVectors(n)
       \/ y_true = ExampleTrue /\ y_pred = ExamplePred
    /\ y_prob \in {None, Probs}
    /\ metrics = EmptyDict
    /\ metric = "f1"
    /\ best_found = NoResult

NextMetrics ==
    ComputeMetrics

SpecMetrics == InitMetrics /\ [][NextMetrics]_vars

(***************************************************************************)
(* Threshold sweep: src/src/training/metrics.py (compute_threshold_metrics, *)
(* find_best_threshold)                                                    *)
(*                                                                         *)
(* Probabilities and thresholds are counted in units of 1/40.              *)
(* np.arange(0.1, 1.0, 0.1) yields the nine doubles 0.1, 0.2,              *)
(* 0.30000000000000004, 0.4, 0.5, 0.6, 0.7000000000000001, 0.8, 0.9: its   *)
(* third and seventh elements lie just above 0.3 and 0.7, here one unit    *)
(* above, so that a probability of 0.3 is below the third threshold as it  *)
(* is in the program.                                                      *)
(***************************************************************************)

\* thresholds = np.arange(0.1, 1.0, 0.1)
ThresholdGrid == <<4, 8, 13, 16, 20, 24, 29, 32, 36>>

\* (y_prob >= threshold).astype(int)
PredictAt(yprob, t) ==
    [i \in 1..Len(yprob) |-> IF yprob[i] >= t THEN 1 ELSE 0]

\* compute_threshold_metrics with the default grid: for each metric the
\* array of its values, one per threshold
compute_threshold_metrics(yt, yprob) ==
    [thresholds |-> ThresholdGrid,
     precision  |-> [k \in DOMAIN ThresholdGrid |->
                        precision_score(yt,
                            PredictAt(yprob, ThresholdGrid[k]))],
     recall     |-> [k \in DOMAIN ThresholdGrid |->
                        recall_score(yt, PredictAt(yprob, ThresholdGrid[k]))],
     f1         |-> [k \in DOMAIN ThresholdGrid |->
                        f1_score(yt, PredictAt(yprob, ThresholdGrid[k]))],
     accuracy   |-> [k \in DOMAIN ThresholdGrid |->
                        accuracy_score(yt, PredictAt(yprob, ThresholdGrid[k]))]]

\* a / b < c / d for fractions with positive denominators
LessThan(a, b) == a.num * b.den < b.num * a.den

\* the last index of the largest value
argmax_Last(values) ==
    CHOOSE k \in DOMAIN values :
        /\ \A j \in DOMAIN values : ~LessThan(values[k], values[j])
        /\ \A j \in DOMAIN values :
               j > k => LessThan(values[j], values[k])

\* np.argmax: the first index of the largest value
argmax(values) ==
    CHOOSE k \in DOMAIN values :
        /\ \A j \in DOMAIN values : ~LessThan(values[k], values[j])
        /\ \A j \in DOMAIN values :
               j < k => LessThan(values[j], values[k])

\* find_best_threshold: (best_threshold, best_value)
find_best_threshold(yt, yprob, m) ==
    LET threshold_metrics == compute_threshold_metrics(yt, yprob)
        metric_values     == threshold_metrics[m]
        best_idx          == argmax(metric_values)
    IN  [best_threshold |-> threshold_metrics.thresholds[best_idx],
         best_value     |-> metric_values[best_idx]]

\* one call of FraudMetrics.find_best_threshold
FindBestThreshold ==
    /\ best_found = NoResult
    /\ best_found' = find_best_threshold(y_true, y_prob, metric)
    /\ UNCHANGED <<y_true, y_pred, y_prob, metrics, metric>>
    /\ UNCHANGED <<trainerVars, graphVars, dataVars, managerVars,
                   encoderVars>>

\* longest probability vectors enumerated
MaxProbs == 3

\* probabilities 0.2, 0.3, 0.5 and 0.9
ProbLevels == {8, 12, 20, 36}

\* the metrics find_best_threshold documents
MetricNames == {"f1", "precision", "recall"}

InitThreshold ==
    /\ NoManager
    /\ NoFlatten
    /\ NoForward
    /\ ConstructedTrainer
    /\ NoBuilder
    /\ NoGraphLoaded
    /\ \E n \in 1..MaxProbs :
           /\ y_true \in BinaryVectors(n)
           /\ y_prob \in [1..n -> ProbLevels]
    /\ y_pred = <<>>
    /\ metrics = EmptyDict
    /\ metric \in MetricNames
    /\ best_found = NoResult

NextThreshold ==
    FindBestThreshold

SpecThreshold == InitThreshold /\ [][NextThreshold]_vars

(***************************************************************************)
(* Transactions table: src/src/database/dynamic_postgres_manager.py        *)
(* (PostgreSQLManager) and src/src/database/data_inserter.py               *)
(*                                                                         *)
(* connection is the state of PostgreSQLManager.connection: "none" (no     *)
(* connection object), "open", or "aborted" (a statement failed and the    *)
(* transaction was not rolled back, so every further statement fails).     *)
(* transactions is the table in the database: a row per transaction_id     *)
(* with its fraud_flag and its status; the status of a row is SqlNull      *)
(* while the table has no status column.  returned is the last call of the *)
(* manager with its DataFrame argument and its return value.               *)
(***************************************************************************)

\* SQL NULL
SqlNull == "NULL"

\* the table right after CREATE TABLE
EmptyTable == [exists |-> TRUE, status_column |-> FALSE, rows |-> <<>>]

\* most rows in a DataFrame given to insert_transactions_batch
MaxBatch == 2

\* the transaction ids in use
TxnIds == {1, 2}

\* DataFrames of up to MaxBatch rows, with all required columns or not
DataFrames ==
    UNION {[complete : BOOLEAN,
            rows : [1..n -> [transaction_id : TxnIds, fraud_flag : {0, 1}]]] :
           n \in 0..MaxBatch}

\* required_cols of insert_transactions_batch
RequiredCols ==
    <<"transaction_id", "account_id", "merchant_id", "device_id", "amount",
      "timestamp", "fraud_flag">>

\* records = [tuple(row) for row in insert_df.values]: one tuple per row,
\* one element per required column; the columns the table keeps no trace of
\* here hold the name of the column
Records(df) ==
    [i \in DOMAIN df.rows |->
        [k \in DOMAIN RequiredCols |->
            IF RequiredCols[k] = "transaction_id"
            THEN df.rows[i].transaction_id
            ELSE IF RequiredCols[k] = "fraud_flag"
                 THEN df.rows[i].fraud_flag
                 ELSE RequiredCols[k]]]

\* the largest Python index the comprehension batch_with_bool reads, row[7],
\* as a position counted from 1
LastIndexRead == 8

\* the comprehension raises IndexError when a tuple is shorter than that
BatchWithBoolRaises(records) ==
    \E i \in DOMAIN records : LastIndexRead \notin DOMAIN records[i]

\* INSERT ... ON CONFLICT (transaction_id) DO NOTHING of the records in
\* order: a record whose transaction_id is present is skipped
RECURSIVE InsertOnConflictDoNothing(_, _)
InsertOnConflictDoNothing(rows, records) ==
    IF records = <<>>
    THEN rows
    ELSE LET rec == Head(records)
             id  == rec[1]
             new == IF id \in DOMAIN rows
                    THEN rows
                    ELSE [j \in DOMAIN rows \cup {id} |->
                             IF j = id
                             THEN [fraud_flag |-> rec[7] = 1,
                                   status |-> SqlNull]
                             ELSE rows[j]]
         IN  InsertOnConflictDoNothing(new, Tail(records))

\* a statement on the connection raises PostgresError: the transaction is
\* aborted, or the statement names a table that does not exist
StatementFails == connection = "aborted" \/ ~txn_table.exists

\* connection.rollback() in an except branch: if self.connection
Rollback == IF connection = "none" THEN "none" ELSE "open"

\* the last call of a method that returns a boolean
Call(name, value) == [call |-> name, value |-> value]

\* the last call of insert_transactions_batch(df) and the pair it returned
InsertCall(df, inserted, skipped) ==
    [call |-> "insert_transactions_batch", df |-> df,
     inserted |-> inserted, skipped |-> skipped]

\* the last call of get_transaction_count and the number it returned
CountCall(count) == [call |-> "get_transaction_count", count |-> count]

\* PostgreSQLManager.connect
Connect == \E ok \in BOOLEAN :
    /\ connection' = IF ok THEN "open" ELSE connection
    /\ returned' = Call("connect", ok)
    /\ UNCHANGED txn_table
    /\ UNCHANGED <<trainerVars, graphVars, dataVars, metricsVars, encoderVars>>

\* PostgreSQLManager.disconnect
Disconnect ==
    /\ connection' = "none"
    /\ returned' = Call("disconnect", TRUE)
    /\ UNCHANGED txn_table
    /\ UNCHANGED <<trainerVars, graphVars, dataVars, metricsVars, encoderVars>>

\* PostgreSQLManager.create_txn_table
CreateTransactionsTable ==
    /\ IF connection = "none"
       THEN /\ returned' = Call("create_txn_table", FALSE)
            /\ UNCHANGED <<connection, txn_table>>
       ELSE IF connection = "aborted"
            THEN /\ returned' = Call("create_txn_table", FALSE)
                 /\ connection' = Rollback
                 /\ UNCHANGED txn_table
            ELSE /\ txn_table' = IF txn_table.exists
                                    THEN txn_table ELSE EmptyTable
                 /\ returned' = Call("create_txn_table", TRUE)
                 /\ UNCHANGED connection
    /\ UNCHANGED <<trainerVars, graphVars, dataVars, metricsVars, encoderVars>>

\* PostgreSQLManager.reset_txn_table
ResetTransactionsTable ==
    /\ IF connection = "none"
       THEN /\ returned' = Call("reset_txn_table", FALSE)
            /\ UNCHANGED <<connection, txn_table>>
       ELSE IF StatementFails
            THEN /\ returned' = Call("reset_txn_table", FALSE)
                 /\ connection' = Rollback
                 /\ UNCHANGED txn_table
            ELSE /\ txn_table' = [txn_table EXCEPT !.rows = <<>>]
                 /\ returned' = Call("reset_txn_table", TRUE)
                 /\ UNCHANGED connection
    /\ UNCHANGED <<trainerVars, graphVars, dataVars, metricsVars, encoderVars>>

\* PostgreSQLManager.insert_transactions_batch(df): the pair returned is
\* <<inserted, skipped>>
InsertTransactionsBatch == \E df \in DataFrames :
    /\ IF connection = "none" \/ df.rows = <<>>
       THEN /\ returned' = InsertCall(df, 0, 0)
            /\ UNCHANGED <<connection, txn_table>>
       ELSE IF ~df.complete
       THEN /\ returned' = InsertCall(df, 0, 0)
            /\ UNCHANGED <<connection, txn_table>>
       ELSE IF BatchWithBoolRaises(Records(df))
       THEN \* except Exception: rollback, return 0, len(df)
            /\ returned' = InsertCall(df, 0, Len(df.rows))
            /\ connection' = Rollback
            /\ UNCHANGED txn_table
       ELSE IF StatementFails
       THEN \* except PostgresError: rollback, return 0, len(records)
            /\ returned' = InsertCall(df, 0, Len(df.rows))
            /\ connection' = Rollback
            /\ UNCHANGED txn_table
       ELSE \* total_inserted += len(batch_with_bool) for every batch
            /\ txn_table' =
                   [txn_table EXCEPT !.rows =
                       InsertOnConflictDoNothing(@, Records(df))]
            /\ returned' = InsertCall(df, Len(df.rows), 0)
            /\ UNCHANGED connection
    /\ UNCHANGED <<trainerVars, graphVars, dataVars, metricsVars, encoderVars>>

\* the UPDATE of Phase 2 that leaves rows without fraud as they are
StatusOf_FraudOnly(row) ==
    IF row.fraud_flag THEN "FRAUD" ELSE row.status

\* CASE WHEN fraud_flag::integer = 1 THEN 'FRAUD' ELSE 'OK' END
StatusOf(row) ==
    IF row.fraud_flag THEN "FRAUD" ELSE "OK"

\* PostgreSQLManager.add_status_column_and_update
AddStatusColumnAndUpdate ==
    /\ IF connection = "none"
       THEN /\ returned' = Call("add_status_column_and_update", FALSE)
            /\ UNCHANGED <<connection, txn_table>>
       ELSE IF StatementFails
            THEN /\ returned' =
                        Call("add_status_column_and_update", FALSE)
                 /\ connection' = Rollback
                 /\ UNCHANGED txn_table
            ELSE /\ txn_table' =
                     [exists |-> TRUE,
                      status_column |-> TRUE,
                      rows |-> [id \in DOMAIN txn_table.rows |->
                                  LET row == txn_table.rows[id]
                                  IN  IF row.status = SqlNull
                                      THEN [row EXCEPT
                                               !.status = StatusOf(row)]
                                      ELSE row]]
                 /\ returned' =
                        Call("add_status_column_and_update", TRUE)
                 /\ UNCHANGED connection
    /\ UNCHANGED <<trainerVars, graphVars, dataVars, metricsVars, encoderVars>>

\* PostgreSQLManager.get_transaction_count: without a cursor the call
\* raises AttributeError; a failed query returns 0 without a rollback
GetTransactionCount ==
    /\ IF connection = "none"
       THEN /\ returned' = [call |-> "get_transaction_count",
                             raised |-> "AttributeError"]
            /\ UNCHANGED connection
       ELSE IF StatementFails
            THEN /\ returned' = CountCall(0)
                 /\ connection' = "aborted"
            ELSE /\ returned' = CountCall(Cardinality(DOMAIN txn_table.rows))
                 /\ UNCHANGED connection
    /\ UNCHANGED txn_table
    /\ UNCHANGED <<trainerVars, graphVars, dataVars, metricsVars, encoderVars>>

\* DataInserter.insert_transaction on its own connection, committed by its
\* caller: INSERT ... ON CONFLICT (transaction_id) DO NOTHING of one row
InsertTransaction == \E id \in TxnIds, fraud_flag \in {0, 1} :
    /\ txn_table.exists
    /\ txn_table' =
           [txn_table EXCEPT !.rows =
               InsertOnConflictDoNothing(@,
                   <<[k \in DOMAIN RequiredCols |->
                         IF k = 1 THEN id
                         ELSE IF k = 7 THEN fraud_flag
                         ELSE RequiredCols[k]]>>)]
    /\ returned' = Call("insert_transaction", TRUE)
    /\ UNCHANGED connection
    /\ UNCHANGED <<trainerVars, graphVars, dataVars, metricsVars, encoderVars>>

\* a manager after __init__ and a database without the table
InitManager ==
    /\ ConstructedTrainer
    /\ NoFlatten
    /\ NoForward
    /\ NoBuilder
    /\ NoGraphLoaded
    /\ NoMetricsCall
    /\ connection = "none"
    /\ txn_table = NoTable
    /\ returned = NoResult

NextManager ==
    \/ Connect
    \/ Disconnect
    \/ CreateTransactionsTable
    \/ ResetTransactionsTable
    \/ InsertTransactionsBatch
    \/ AddStatusColumnAndUpdate
    \/ GetTransactionCount
    \/ InsertTransaction

SpecManager == InitManager /\ [][NextManager]_vars

(***************************************************************************)
(* Flattening and splitting in HeteroRGCN: src/src/models/rgcn.py          *)
(*                                                                         *)
(* forward() flattens the projected node matrices and the edges of the     *)
(* graph with _hetero_to_homo and splits the output of the layers with     *)
(* _homo_to_hetero.  The two steps are taken one after the other on small  *)
(* graphs: up to MaxTypeNodes nodes of each type and, for each of the      *)
(* three forward relations, no edge or one edge between existing nodes     *)
(* together with its reverse edge.                                         *)
(***************************************************************************)
MaxTypeNodes == 2

\* an edge_index with no edge, or with one edge from a node of the source
\* type to a node of the destination type (0-based indices)
EdgeIndexes(num_src, num_dst) ==
    {<<>>} \cup {<<<<s, t>>>> : s \in 0..(num_src - 1), t \in 0..(num_dst - 1)}

\* a HeteroData with the given numbers of nodes and forward edges
SmallGraph(accounts, merchants, devices, txn, uses, shares) ==
    [account |-> [x |-> [i \in 1..accounts |-> <<i>>],
                  y |-> [i \in 1..accounts |-> 0]],
     merchant |-> [x |-> [i \in 1..merchants |-> <<i>>]],
     device |-> [x |-> [i \in 1..devices |-> <<i>>]],
     transacts_with |-> [edge_index |-> txn],
     rev_transacts_with |-> [edge_index |-> StackReversed(txn)],
     uses |-> [edge_index |-> uses],
     used_by |-> [edge_index |-> StackReversed(uses)],
     shares |-> [edge_index |-> shares],
     shared_by |-> [edge_index |-> StackReversed(shares)]]

\* node_counts of forward(): the number of rows of each projected matrix
NodeCounts(x_dict) == [t \in DOMAIN x_dict |-> Len(x_dict[t])]

\* the first half of HeteroRGCN.forward: projection, node_counts and
\* _hetero_to_homo
HeteroToHomo ==
    /\ data # EmptyDict
    /\ model_type = "rgcn"
    /\ flat = NoResult
    /\ LET x_dict == ProjectInputs(Memory(data))
           homo   == hetero_to_homo(Memory(data), x_dict, EdgeIndexDict)
       IN  /\ flat' = [x |-> homo.x, edge_index |-> homo.edge_index,
                       edge_type |-> homo.edge_type,
                       node_type_offsets |-> homo.node_type_offsets,
                       node_counts |-> NodeCounts(x_dict)]
           /\ data' = homo.mem.data
    /\ UNCHANGED <<x_out, model_type, num_layers, applied>>
    /\ UNCHANGED <<trainerVars, graphVars, metricsVars, managerVars>>

\* the end of HeteroRGCN.forward: _homo_to_hetero on the flattened matrix
\* (the layers keep the rows in place)
HomoToHetero ==
    /\ flat # NoResult
    /\ x_out = NoResult
    /\ x_out' = homo_to_hetero(flat.x, flat.node_type_offsets,
                               flat.node_counts)
    /\ UNCHANGED <<flat, num_layers, applied>>
    /\ UNCHANGED <<trainerVars, graphVars, dataVars, metricsVars,
                   managerVars>>

\* an R-GCN encoder on any small graph
InitRGCN ==
    /\ ConstructedTrainer
    /\ NoBuilder
    /\ NoMetricsCall
    /\ NoManager
    /\ NoFlatten
    /\ NoForward
    /\ model_type = "rgcn"
    /\ \E accounts, merchants, devices \in 0..MaxTypeNodes :
           \E txn \in EdgeIndexes(accounts, merchants),
              uses \in EdgeIndexes(accounts, devices),
              shares \in EdgeIndexes(accounts, devices) :
                  data = SmallGraph(accounts, merchants, devices,
                                    txn, uses, shares)

NextRGCN ==
    \/ HeteroToHomo
    \/ HomoToHetero

SpecRGCN == InitRGCN /\ [][NextRGCN]_vars

(***************************************************************************)
(* The layers of the encoders: src/src/models/graphsage.py, gat.py,        *)
(* rgcn.py.  forward() of each encoder projects the inputs and runs the    *)
(* loop over self.convs; applied lists the modules and functions it calls  *)
(* on the embeddings, in order.                                            *)
(***************************************************************************)
MaxLayers == 3

\* F.relu in HeteroGraphSAGE and HeteroRGCN, F.elu in HeteroGAT
Activation(mt) == IF mt = "gat" THEN "elu" ELSE "relu"

\* iteration i of the loop over self.convs (i counts from 0)
Layer(mt, i, num) ==
    <<"conv", "batch_norm">>
        \o (IF i < num - 1 THEN <<Activation(mt), "dropout">> ELSE <<>>)

\* iterations 0 .. upto - 1 of the loop
RECURSIVE Layers(_, _, _)
Layers(mt, upto, num) ==
    IF upto = 0 THEN <<>>
    ELSE Layers(mt, upto - 1, num) \o Layer(mt, upto - 1, num)

\* forward() of the encoder of type mt with num layers
Forward(mt, num) == <<"input_projections">> \o Layers(mt, num, num)

\* one call of the encoder on the graph
EncoderForward ==
    /\ data # EmptyDict
    /\ applied = <<>>
    /\ applied' = Forward(model_type, num_layers)
    /\ data' = ForwardPass(model_type, data)
    /\ UNCHANGED <<flat, x_out, num_layers, model_type>>
    /\ UNCHANGED <<trainerVars, graphVars, metricsVars, managerVars>>

\* any of the three encoders with any small number of layers on any small
\* graph
InitEncoder ==
    /\ ConstructedTrainer
    /\ NoBuilder
    /\ NoMetricsCall
    /\ NoManager
    /\ NoFlatten
    /\ applied = <<>>
    /\ num_layers \in 1..MaxLayers
    /\ model_type \in ModelTypes
    /\ \E accounts, merchants, devices \in 0..MaxTypeNodes :
           \E txn \in EdgeIndexes(accounts, merchants) :
                  data = SmallGraph(accounts, merchants, devices,
                                    txn, <<>>, <<>>)

NextEncoder ==
    \/ EncoderForward

SpecEncoder == InitEncoder /\ [][NextEncoder]_vars

(***************************************************************************)
(* Specifications                                                          *)
(***************************************************************************)
LabelVectors == UNION {[1..n -> {0, 1}] : n \in 0..MaxNodes}

\* the trainer after __init__ and load_graph
InitTrainer ==
    /\ NoManager
    /\ NoFlatten
    /\ NoForward
    /\ NoBuilder
    /\ NoMetricsCall
    /\ phase = "Initialized"
    /\ error = "none"
    /\ train_ratio = 0
    /\ val_ratio = 0
    /\ test_ratio = 0
    /\ split_fn = "none"
    /\ train_mask = {}
    /\ val_mask = {}
    /\ test_mask = {}
    /\ criterion = NoCriterion
    /\ save_best = TRUE
    /\ model_params = 0
    /\ optimizer_state = 0
    /\ epoch = 0
    /\ best_val_f1 = InitBestValF1
    /\ best_epoch = 0
    /\ history = <<>>
    /\ es_best_score = NoScore
    /\ es_counter = 0
    /\ es_early_stop = FALSE
    /\ ckpt_log = <<>>
    /\ epoch_log = <<>>

\* the whole pipeline of main(), on any small label vector
Init ==
    /\ InitTrainer
    /\ labels \in LabelVectors
    /\ data = LoadedGraph(labels)
    /\ model_type = "graphsage"
    /\ num_epochs = 1
    /\ patience = 1
    /\ ckpt_file = NoFile

Next ==
    \/ CreateSplits
    \/ Main
    \/ RandomSplit
    \/ BuildModel
    \/ SetupTraining
    \/ StartTrain
    \/ TrainEpoch
    \/ TrainEpochSaveInterrupted

Spec == Init /\ [][Next]_vars

\* a graph with RatioDen nodes of each class, split (RatioDen-2) : 1 : 1
TrainLabels == [i \in 1..(2 * RatioDen) |-> IF i <= RatioDen THEN 0 ELSE 1]
Identity(n) == [i \in 1..n |-> i]
TrainSplit ==
    create_stratified_split(TrainLabels, RatioDen - 2, 1,
                            Identity(RatioDen), Identity(RatioDen))

\* the random split of the same nodes that the identity permutation gives:
\* the labels are sorted, so the training partition holds one class only
TrainSplitRandom ==
    create_train_val_test_split(2 * RatioDen, RatioDen - 2, 1,
                                Identity(2 * RatioDen))

\* a trainer that has reached setup_training on that graph with the masks
\* of the split function fn
ReadyTrainerOn(fn, masks) ==
    /\ NoManager
    /\ NoFlatten
    /\ NoForward
    /\ NoBuilder
    /\ NoMetricsCall
    /\ phase = "Ready"
    /\ error = "none"
    /\ labels = TrainLabels
    /\ data = LoadedGraph(labels)
    /\ model_type = "graphsage"
    /\ train_ratio = RatioDen - 2
    /\ val_ratio = 1
    /\ test_ratio = 1
    /\ split_fn = fn
    /\ train_mask = masks.train
    /\ val_mask = masks.val
    /\ test_mask = masks.test
    /\ criterion = [kind |-> "unweighted", num |-> 1, den |-> 1]
    /\ save_best = TRUE
    /\ epoch = 0
    /\ best_val_f1 = InitBestValF1
    /\ best_epoch = 0
    /\ history = <<>>
    /\ es_best_score = NoScore
    /\ es_counter = 0
    /\ es_early_stop = FALSE
    /\ ckpt_log = <<>>
    /\ epoch_log = <<>>

ReadyTrainer == ReadyTrainerOn("stratified", TrainSplit)

\* train() for every small num_epochs, patience and score sequence, on the
\* masks of either split function
InitTrain ==
    /\ \/ ReadyTrainer
       \/ ReadyTrainerOn("random", TrainSplitRandom)
    /\ num_epochs \in 0..MaxEpochs
    /\ patience \in 0..MaxPatience
    /\ model_params = 0
    /\ optimizer_state = 0
    /\ ckpt_file \in {NoFile, StaleFile}

NextTrain ==
    \/ StartTrain
    \/ TrainEpoch
    \/ TrainEpochSaveInterrupted

SpecTrain == InitTrain /\ [][NextTrain]_vars

\* files another program, another version or an interrupted write may have
\* left at the checkpoint path
LoadableFiles ==
    {NoFile, PartialFile} \cup
    {[kind |-> "complete", keys |-> k, epoch |-> 1, model_state_dict |-> m,
      optimizer_state_dict |-> o, metrics |-> 0, opt_ok |-> ok] :
        k \in SUBSET CkptKeys, m \in 0..MaxVersion, o \in 0..MaxVersion,
        ok \in BOOLEAN}

\* save_checkpoint and load_checkpoint called on a model and an optimizer
InitLoad ==
    /\ ReadyTrainer
    /\ num_epochs = 1
    /\ patience = 1
    /\ model_params \in 0..MaxVersion
    /\ optimizer_state \in 0..MaxVersion
    /\ ckpt_file \in LoadableFiles

NextLoad ==
    \/ LoadCheckpoint
    \/ SaveCheckpoint
    \/ SaveCheckpointInterrupted

SpecLoad == InitLoad /\ [][NextLoad]_vars

\* label vectors of the graphs the whole run is followed on
PipelineLabels ==
    {[i \in 1..MaxNodes |-> i % 2], [i \in 1..MaxNodes |-> 0]}

\* main() of train.py from load_graph to evaluate_final, for each model type,
\* on a graph file some build has written; evaluate_model_all_splits, which
\* train.py imports, may be called on the trained model
InitPipeline ==
    /\ NoManager
    /\ NoFlatten
    /\ NoForward
    /\ ConstructedTrainer
    /\ NoMetricsCall
    /\ data = EmptyDict
    /\ model_type \in ModelTypes
    /\ db = EmptyDict
    /\ node_mappings = EmptyDict
    /\ graph_stats = EmptyDict
    /\ graph_data = EmptyDict
    /\ build_phase = "none"
    /\ graph_file \in {Written(LoadedGraph(lbls)) : lbls \in PipelineLabels}
    /\ mappings_file = Absent
    /\ stats_file = Absent

NextPipeline ==
    \/ LoadGraph
    \/ CreateSplits
    \/ Main
    \/ BuildModel
    \/ SetupTraining
    \/ StartTrain
    \/ TrainEpoch
    \/ TrainEpochSaveInterrupted
    \/ EvaluateFinal
    \/ EvaluateModelAllSplits

SpecPipeline == InitPipeline /\ [][NextPipeline]_vars

(***************************************************************************)
(* Properties of the training loop (checked under SpecTrain)               *)
(***************************************************************************)
\* the epoch of the highest validation F1 (the first one when several tie)
BestEpochOf(h) ==
    CHOOSE b \in 1..Len(h) :
        /\ \A j \in 1..Len(h) : h[j] <= h[b]
        /\ \A j \in 1..(b - 1) : h[j] < h[b]

\* the last of the first k epochs whose score exceeded, by more than
\* min_delta, the score of the previous such epoch (epoch 1 is the first)
RECURSIVE LastImprovement(_, _)
LastImprovement(h, k) ==
    IF k <= 1 THEN k
    ELSE LET r == LastImprovement(h, k - 1)
         IN  IF h[k] > h[r] + MinDelta THEN k ELSE r

\* the epochs whose score is strictly greater than every earlier score
NewBestEpochs(h) ==
    {e \in 1..Len(h) : \A j \in 1..(e - 1) : h[j] < h[e]}

EpochsRun == Len(history)

\* C1 as stated (for a patience of at least one epoch): when the best
\* validation F1 is reached at epoch b, nothing later improves on it and
\* num_epochs >= b + patience, training halts at exactly epoch b + patience:
\* a finished run has run b + patience epochs, and a run that goes on has
\* run fewer
C1_HaltsAtBestPlusPatience ==
    patience >= 1 =>
       /\ (phase = "Done" /\ EpochsRun >= 1
             /\ num_epochs >= BestEpochOf(history) + patience)
          => EpochsRun = BestEpochOf(history) + patience
       /\ (phase = "Training" /\ EpochsRun >= 1)
          => EpochsRun < BestEpochOf(history) + patience

\* the epoch at which early stopping halts a run with this history
HaltEpoch == LastImprovement(history, EpochsRun) + Max(patience, 1)

\* C1 amended: training halts exactly max(patience, 1) epochs after the
\* last epoch whose validation F1 exceeded by more than min_delta (0.001)
\* the F1 of the previous such epoch (epoch 1 being the first), provided
\* num_epochs allows it; scores that improve by min_delta or less do not
\* restart the count
C1_HaltsAfterLastImprovement ==
    /\ (phase = "Done" /\ EpochsRun >= 1 /\ num_epochs >= HaltEpoch)
       => EpochsRun = HaltEpoch
    /\ (phase = "Training" /\ EpochsRun >= 1) => EpochsRun < HaltEpoch

\* early stopping halted a run whose best epoch is later than the epoch
\* the patience count started from
C1_Witness ==
    /\ phase = "Done"
    /\ es_early_stop
    /\ patience >= 1
    /\ EpochsRun < num_epochs
    /\ BestEpochOf(history) > LastImprovement(history, EpochsRun)

\* C2: when train(save_best=True) returns after at least one epoch, the
\* checkpoint file holds the epoch number, the metrics and the parameters
\* of the epoch with the highest validation F1 of the run
C2_CheckpointIsBestEpoch ==
    (phase = "Done" /\ save_best /\ EpochsRun >= 1)
    => /\ IsComplete(ckpt_file)
       /\ ckpt_file.epoch = BestEpochOf(history)
       /\ ckpt_file.metrics = history[BestEpochOf(history)]
       /\ ckpt_file.model_state_dict = BestEpochOf(history)

\* C3: with save_best, a checkpoint is written in exactly the epochs whose
\* validation F1 is strictly greater than that of every earlier epoch (the
\* first epoch included), and it holds that epoch's number, metrics,
\* parameters and optimizer state
C3_CheckpointEveryNewBest ==
    (phase \in {"Training", "Done"} /\ save_best)
    => /\ {ckpt_log[i][1] : i \in DOMAIN ckpt_log} = NewBestEpochs(history)
       /\ \A i \in DOMAIN ckpt_log : ckpt_log[i][2] = history[ckpt_log[i][1]]
       /\ ckpt_log # <<>> =>
             LET last == ckpt_log[Len(ckpt_log)]
             IN  ckpt_file = CheckpointDict(last[1], last[1], last[1], last[2])

\* C4: a checkpoint write is atomic: once a complete checkpoint is at the
\* path, every step leaves a complete checkpoint there, and a step in which
\* the write fails leaves the previous one
C4_CheckpointWriteAtomic ==
    [][IsComplete(ckpt_file)
         => /\ IsComplete(ckpt_file')
            /\ (phase' = "Failed" => ckpt_file' = ckpt_file)]_vars

(***************************************************************************)
(* Properties of load_checkpoint (checked under SpecLoad)                  *)
(***************************************************************************)
\* C5: a load_checkpoint call that fails leaves the in-memory model
\* parameters and optimizer state exactly as they were before the call
C5_FailedLoadKeepsState ==
    [][(phase = "Ready" /\ phase' = "LoadFailed")
         => /\ model_params' = model_params
            /\ optimizer_state' = optimizer_state]_vars

(***************************************************************************)
(* Properties of the splits and the loss (checked under Spec)              *)
(***************************************************************************)
Nodes == 1..Len(labels)
ClassNodes(c) == {i \in Nodes : labels[i] = c}
FraudIn(mask) == Cardinality(mask \cap ClassNodes(1))

\* C6: when one of the three partitions made by create_splits is empty, the
\* run aborts before the first epoch: the epoch loop is never entered and
\* no gradient step is taken
C6_EmptyPartitionAborts ==
    (split_fn = "stratified"
       /\ (train_mask = {} \/ val_mask = {} \/ test_mask = {}))
    => /\ phase \notin {"Training", "Done"}
       /\ model_params = 0

\* C7: the masks returned by create_stratified_split put every node in
\* exactly one of train, validation and test
C7_MasksPartitionNodes ==
    split_fn = "stratified"
    => /\ train_mask \cup val_mask \cup test_mask = Nodes
       /\ train_mask \cap val_mask = {}
       /\ train_mask \cap test_mask = {}
       /\ val_mask \cap test_mask = {}

\* |fraud rate of the mask - population fraud rate| < num/den
RateWithin(mask, num, den) ==
    den * Abs(FraudIn(mask) * Len(labels)
              - Cardinality(ClassNodes(1)) * Cardinality(mask))
      < num * Cardinality(mask) * Len(labels)

\* every class contributes floor(n_c * train_ratio) nodes to train,
\* floor(n_c * val_ratio) to validation and the rest to test
FloorCounts ==
    \A c \in {0, 1} :
        LET n == Cardinality(ClassNodes(c))
            a == (n * train_ratio) \div RatioDen
            b == (n * val_ratio) \div RatioDen
        IN  /\ Cardinality(train_mask \cap ClassNodes(c)) = a
            /\ Cardinality(val_mask \cap ClassNodes(c)) = b
            /\ Cardinality(test_mask \cap ClassNodes(c)) = n - a - b

\* the accepted ratio triples inside [0, 1]
NonNegativeRatios == train_ratio >= 0 /\ val_ratio >= 0 /\ test_ratio >= 0

C9_BadRatiosRejected ==
    (phase # "Initialized" /\ train_ratio + val_ratio + test_ratio # RatioDen)
    => /\ phase = "ConfigError"
       /\ error = "AssertionError"
       /\ split_fn = "none"
       /\ train_mask = {}
       /\ val_mask = {}
       /\ test_mask = {}

\* a call with ratios that sum to less than 1 has been rejected
C9_Witness ==
    /\ phase = "ConfigError"
    /\ Len(labels) > 0
    /\ train_ratio >= 0
    /\ val_ratio >= 0
    /\ test_ratio >= 0
    /\ train_ratio + val_ratio + test_ratio < RatioDen

\* C10: with class weighting, the positive-class weight of the loss is the
\* number of non-fraud training nodes divided by the number of fraud
\* training nodes
C10_PosWeightIsNegOverPos ==
    criterion.kind = "weighted"
    => /\ FraudIn(train_mask) > 0
       /\ criterion.num * FraudIn(train_mask)
            = criterion.den * Cardinality(train_mask \cap ClassNodes(0))

\* a weighted loss was set up on a training partition with more non-fraud
\* than fraud nodes
C10_Witness ==
    /\ criterion.kind = "weighted"
    /\ NonNegativeRatios
    /\ Cardinality(train_mask \cap ClassNodes(0)) > FraudIn(train_mask)

(***************************************************************************)
(* Properties of the built graph (checked under SpecGraph)                 *)
(***************************************************************************)
Built == build_phase \in {"built", "saved", "interrupted"}

NodeTypes == {"account", "merchant", "device"}
IdColumn(t) ==
    CASE t = "account" -> [i \in DOMAIN db.account |-> db.account[i].account_id]
      [] t = "merchant" -> [i \in DOMAIN db.merchant |-> db.merchant[i].merchant_id]
      [] t = "device" -> [i \in DOMAIN db.device |-> db.device[i].device_id]
\* the encoded column of a node row, and its column in the feature matrix
EncodedColumn(t) ==
    CASE t = "account" -> [i \in DOMAIN db.account |-> db.account[i].fraud_flag]
      [] t = "merchant" -> [i \in DOMAIN db.merchant |-> db.merchant[i].risk_level_encoded]
      [] t = "device" -> [i \in DOMAIN db.device |-> db.device[i].is_shared]
EncodedAt(t) == IF t = "account" THEN 5 ELSE 4
NumColumn(t) == [i \in DOMAIN db[t] |-> db[t][i].num]

FirstPosition(ids, id) ==
    CHOOSE i \in DOMAIN ids : ids[i] = id /\ \A k \in 1..(i - 1) : ids[k] # id

\* C11: for each node type the mapping gives every distinct id of the table
\* a 0-based index in order of first encounter; the indices are exactly
\* 0..k-1 for k distinct ids and no two ids share one; row i of the feature
\* matrix (and of the label vector) was made from the table row whose id is
\* mapped to i.
C11_MappingIsDenseRowIndex ==
    Built =>
        \A t \in NodeTypes :
            LET ids == IdColumn(t)
                mapping == node_mappings[t]
                k == Cardinality(DOMAIN mapping)
            IN  /\ DOMAIN mapping = {ids[i] : i \in DOMAIN ids}
                /\ {mapping[id] : id \in DOMAIN mapping} = 0..(k - 1)
                /\ \A a, b \in DOMAIN mapping :
                       /\ a # b => mapping[a] # mapping[b]
                       /\ FirstPosition(ids, a) < FirstPosition(ids, b)
                              => mapping[a] < mapping[b]
                /\ Len(graph_data[t].x) = k
                /\ \A r \in DOMAIN ids :
                       LET row == graph_data[t].x[mapping[ids[r]] + 1]
                       IN  /\ row[EncodedAt(t)].raw = EncodedColumn(t)[r]
                           /\ row[1].raw = IF NumColumn(t)[r] = Null THEN 0
                                           ELSE NumColumn(t)[r]
                /\ t = "account" =>
                       /\ Len(graph_data.account.y) = k
                       /\ \A r \in DOMAIN ids :
                              graph_data.account.y[mapping[ids[r]] + 1]
                                  = db.account[r].fraud_flag

\* a graph of two accounts that differ in value and in label
C11_Witness ==
    /\ Built
    /\ Len(db.account) = 2
    /\ db.account[1].fraud_flag # db.account[2].fraud_flag
    /\ db.account[1].num # db.account[2].num
    /\ node_mappings.account[db.account[2].account_id] = 1

\* the relations of the graph with their source and destination node types
Relations ==
    {<<"transacts_with", "account", "merchant">>,
     <<"rev_transacts_with", "merchant", "account">>,
     <<"uses", "account", "device">>,
     <<"used_by", "device", "account">>,
     <<"shares", "account", "device">>,
     <<"shared_by", "device", "account">>}

\* the id is the key of a row of the node table of type t
Present(t, id) == \E i \in DOMAIN IdColumn(t) : IdColumn(t)[i] = id
\* the 0-based row of that id in the node table
RowIndex(t, id) == (CHOOSE i \in DOMAIN IdColumn(t) : IdColumn(t)[i] = id) - 1

\* the rows of a relation table that name an account and a node of type t
\* (through the column named col) which both exist
RowsWithEndpoints(table, t, col) ==
    {i \in DOMAIN table :
        Present("account", table[i].account_id) /\ Present(t, table[i][col])}

\* every edge is <<account row, row of the other endpoint>> of one of rows
EdgesComeFrom(edge_index, table, t, col, rows) ==
    /\ Len(edge_index) = Cardinality(rows)
    /\ \A e \in DOMAIN edge_index :
           \E i \in rows :
               edge_index[e] = <<RowIndex("account", table[i].account_id),
                                 RowIndex(t, table[i][col])>>

\* C12: in every relation, forward and reverse, the source index of every
\* edge is in [0, number of nodes of the source type) and the destination
\* index in [0, number of nodes of the destination type); a row of a
\* relation table whose account, merchant or device is not in the node
\* tables (or is NULL) produces no edge.
C12_EdgesInRange ==
    Built =>
        /\ \A rel \in Relations :
               \A e \in DOMAIN graph_data[rel[1]].edge_index :
                   LET edge == graph_data[rel[1]].edge_index[e]
                   IN  /\ 0 <= edge[1]
                       /\ edge[1] < Len(graph_data[rel[2]].x)
                       /\ 0 <= edge[2]
                       /\ edge[2] < Len(graph_data[rel[3]].x)
        /\ EdgesComeFrom(graph_data.transacts_with.edge_index, db.transaction,
               "merchant", "merchant_id",
               RowsWithEndpoints(db.transaction, "merchant", "merchant_id"))
        /\ EdgesComeFrom(graph_data.uses.edge_index, db.transaction,
               "device", "device_id",
               RowsWithEndpoints(db.transaction, "device", "device_id"))
        /\ EdgesComeFrom(graph_data.shares.edge_index, db.shared_device,
               "device", "device_id",
               RowsWithEndpoints(db.shared_device, "device", "device_id"))

\* two transactions, one dropped for its merchant, one kept as an edge from
\* the second account, and a device edge
C12_Witness ==
    /\ Built
    /\ Len(db.transaction) = 2
    /\ Len(graph_data.transacts_with.edge_index) = 1
    /\ graph_data.transacts_with.edge_index[1][1] = 1
    /\ Len(graph_data.uses.edge_index) >= 1
    /\ \E i \in DOMAIN db.transaction : db.transaction[i].device_id = Null

\* the database with one more row in each relation table, a row that names
\* no account, merchant or device and is therefore dropped by the build
WithDroppedRows(db_) ==
    [db_ EXCEPT
        !.transaction = Append(@, [account_id |-> Null, merchant_id |-> Null,
                                   device_id |-> Null, num |-> 0,
                                   is_fraud |-> 0]),
        !.shared_device = Append(@, [device_id |-> Null, account_id |-> Null,
                                     num |-> 0])]
StatsOf(db_) ==
    GraphStats(db_, HeteroData(db_, create_node_mappings(db_.account,
                                        db_.merchant, db_.device)))

\* C13: the build statistics report, for each relation table, how many of
\* its rows were dropped (input rows minus emitted edges).  Statistics that
\* report it differ between two builds that differ in the number of dropped
\* rows: the build of the same database with one more dropped row in each
\* relation table has other statistics.
C13_StatsReportDroppedRows ==
    Built => graph_stats # StatsOf(WithDroppedRows(db))

\* the relations that have a reverse, with it
ReversePairs ==
    {<<"transacts_with", "rev_transacts_with">>, <<"uses", "used_by">>,
     <<"shares", "shared_by">>}

\* C14: for transacts_with, uses and shares the reverse relation has as many
\* edges as the forward relation and its i-th edge is the i-th forward edge
\* with source and destination swapped; the reverse relations carry no
\* fraud labels (no edge_label).
C14_ReverseIsSwappedForward ==
    Built =>
        \A pair \in ReversePairs :
            LET forward == graph_data[pair[1]].edge_index
                reverse == graph_data[pair[2]].edge_index
            IN  /\ Len(reverse) = Len(forward)
                /\ \A i \in DOMAIN forward :
                       reverse[i] = <<forward[i][2], forward[i][1]>>
                /\ "edge_label" \notin DOMAIN graph_data[pair[2]]

\* two labelled transaction edges between different rows, one of them fraud
C14_Witness ==
    /\ Built
    /\ Len(graph_data.transacts_with.edge_index) = 2
    /\ graph_data.transacts_with.edge_index[1]
           # graph_data.transacts_with.edge_index[2]
    /\ \E i \in 1..2 : graph_data.transacts_with.edge_index[i][1]
                           # graph_data.transacts_with.edge_index[i][2]
    /\ \E i \in 1..2 : graph_data.transacts_with.edge_label[i] = 1
    /\ Len(graph_data.shares.edge_index) >= 1

\* the feature matrices of the graph: x of the node types, edge_attr of the
\* relations that have one
FeatureMatrices ==
    {graph_data[t].x : t \in NodeTypes} \cup
    {graph_data[rel[1]].edge_attr :
        rel \in {r \in Relations : "edge_attr" \in DOMAIN graph_data[r[1]]}}

\* C15: for every node type and every relation type a missing (NULL) source
\* value is replaced by zero before the log and standardisation transforms,
\* so no element of a node or edge feature matrix is NaN because of a
\* missing input value.
C15_NoNaNFromMissingValues ==
    Built =>
        \A m \in FeatureMatrices :
            \A i \in DOMAIN m : \A j \in DOMAIN m[i] : m[i][j].raw # Null

\* the feature matrices by name, each with its binary or encoded columns
\* (fraud_flag; risk_level_encoded; is_shared)
MatrixNames ==
    {"account", "merchant", "device", "transacts_with", "uses", "shares",
     "shared_by"}
MatrixOf(name) ==
    IF name \in NodeTypes THEN graph_data[name].x
    ELSE graph_data[name].edge_attr
EncodedColumns(name) ==
    CASE name = "account" -> {5}
      [] name = "merchant" -> {4}
      [] name = "device" -> {4}
      [] OTHER -> {}

\* the standard deviation of column j is greater than zero: it has no NaN
\* and two different values
Varies(m, j) ==
    /\ \A i \in DOMAIN m : m[i][j].raw # Null
    /\ \E i, k \in DOMAIN m : m[i][j].raw # m[k][j].raw

\* the cells of column j of m are standardised (all, or none)
ColumnStandardized(m, j, yes) == \A i \in DOMAIN m : m[i][j].std = yes

\* C16: for every node type and every relation type, every feature column
\* that is not a binary or categorical-encoded column is standardised with
\* its own mean and standard deviation, except that a column whose standard
\* deviation is not greater than zero is left as it was after the log
\* transform.
C16_NumericColumnsStandardized ==
    Built =>
        \A name \in MatrixNames :
            LET m == MatrixOf(name)
            IN  \A i \in DOMAIN m : \A j \in DOMAIN m[i] :
                    m[i][j].std = (j \notin EncodedColumns(name) /\ Varies(m, j))

\* C17: loading the graph for training when the node-mappings file or the
\* build-statistics file is absent is reported as an error and no training
\* starts: a load_graph step taken without one of the two files ends in the
\* failed trainer, never in the initialised one.
C17_LoadNeedsAllArtifacts ==
    [][(/\ phase = "Constructed"
        /\ phase' # "Constructed"
        /\ ~mappings_file.exists \/ ~stats_file.exists)
          => (phase' = "Failed" /\ error' # "none")]_vars

(***************************************************************************)
(* Properties of the loaded graph (checked under SpecPipeline)             *)
(***************************************************************************)
\* the node feature matrices, the edge-index arrays and the labels of a graph
GraphArrays(graph) ==
    [x |-> [t \in NodeTypes |-> graph[t].x],
     edge_index |-> [rel \in {r[1] : r \in Relations} |->
                        graph[rel].edge_index],
     y |-> graph.account.y]

\* C18: from load_graph until training and the final evaluation finish, no
\* operation (create_splits, train_epoch, evaluate_epoch, the forward pass
\* of any of the three encoders, the R-GCN flattening included) changes the
\* node feature matrices, the edge-index arrays or the labels of the graph.
C18_GraphIsReadOnly ==
    [][phase # "Constructed"
          => /\ GraphArrays(data') = GraphArrays(data)
             /\ labels' = labels]_vars

\* an R-GCN run that trained and evaluated on a graph with edges into node
\* types that are flattened behind the accounts, and still holds the graph
\* as the file has it
C18_Witness ==
    /\ phase = "Evaluated"
    /\ model_type = "rgcn"
    /\ epoch >= 1
    /\ Len(data.transacts_with.edge_index) >= 2
    /\ Len(data.account.x) >= 2
    /\ data = graph_file.content


(***************************************************************************)
(* Properties of compute_metrics (checked under SpecMetrics)               *)
(***************************************************************************)

\* compute_metrics has been called on y_true and y_pred
Called == metrics # EmptyDict

\* the call returned a dictionary
Returned == Called /\ "raised" \notin DOMAIN metrics

\* the four cells of the binary confusion matrix of y_true and y_pred
TP == CountPairs(y_true, y_pred, 1, 1)
FP == CountPairs(y_true, y_pred, 0, 1)
FN == CountPairs(y_true, y_pred, 1, 0)
TN == CountPairs(y_true, y_pred, 0, 0)

\* the dictionary holds the four counts, and precision, recall and F1 are
\* the quotients of the counts wherever the quotient is defined
CountsAndQuotients ==
    /\ metrics.true_positives = TP
    /\ metrics.false_positives = FP
    /\ metrics.false_negatives = FN
    /\ metrics.true_negatives = TN
    /\ TP + FP > 0 => SameNumber(metrics.precision, Frac(TP, TP + FP))
    /\ TP + FN > 0 => SameNumber(metrics.recall, Frac(TP, TP + FN))
    /\ 2 * TP + FP + FN > 0 =>
           SameNumber(metrics.f1, Frac(2 * TP, 2 * TP + FP + FN))

\* the vectors with TP = 8, FP = 2, FN = 3, TN = 87 give precision 0.8,
\* recall 8/11 and F1 16/21
ExampleValues ==
    (TP = 8 /\ FP = 2 /\ FN = 3 /\ TN = 87) =>
        /\ SameNumber(metrics.precision, Frac(8, 10))
        /\ SameNumber(metrics.recall, Frac(8, 11))
        /\ SameNumber(metrics.f1, Frac(16, 21))

\* C19: for any label and prediction vectors with confusion matrix
\* (TP, FP, FN, TN), compute_metrics returns those four counts and
\* precision = TP/(TP+FP), recall = TP/(TP+FN), F1 = 2*TP/(2*TP+FP+FN);
\* for TP=8, FP=2, FN=3, TN=87 that is precision 0.8, recall 8/11 and
\* F1 16/21.  Violated: when one label only occurs in both vectors the call
\* raises instead of returning the counts.
C19_CountsAndQuotients ==
    Called => Returned /\ CountsAndQuotients /\ ExampleValues

\* every metric whose denominator is zero is 0
ZeroDenominatorsGiveZero ==
    /\ TP + FP = 0 => metrics.precision = Zero
    /\ TP + FN = 0 => metrics.recall = Zero
    /\ 2 * TP + FP + FN = 0 => metrics.f1 = Zero
    /\ TN + FP = 0 => metrics.specificity = Zero /\ metrics.fpr = Zero
    /\ FN + TP = 0 => metrics.fnr = Zero

\* C20: compute_metrics never raises because of a zero denominator or a
\* missing class: for every pair of label and prediction vectors, also
\* when all labels and all predictions are 0, it returns a dictionary in
\* which each metric whose denominator is zero is 0.  Violated: with all
\* labels and all predictions 0 the confusion matrix has one cell and the
\* unpacking into four names raises ValueError.
C20_NeverRaises ==
    Called => Returned /\ ZeroDenominatorsGiveZero


(***************************************************************************)
(* Properties of the evaluation paths (checked under SpecPipeline)         *)
(***************************************************************************)

\* one of the three partitions has no node
SomePartitionEmpty == train_mask = {} \/ val_mask = {} \/ test_mask = {}

\* every partition that has nodes has nodes of both classes, so that only an
\* empty partition can make an evaluation raise
NonEmptyPartitionsTwoClass ==
    \A mask \in {train_mask, val_mask, test_mask} :
        mask # {} => Len(UniqueSorted(MaskedLabels(labels, mask))) = 2

\* an iteration of train() took place in this step
EpochStep == phase = "Training" /\ epoch' = epoch + 1

\* evaluate_final took place in this step
FinalStep == phase = "Done" /\ phase' \in {"Evaluated", "Failed"}

\* evaluate_model_all_splits took place in this step
AllSplitsStep == metrics = EmptyDict /\ metrics' # EmptyDict

\* the per-epoch evaluation of train() does not raise on an empty partition
EpochEvaluationSkipsEmpty ==
    EpochStep /\ NonEmptyPartitionsTwoClass => error' # "ValueError"

\* evaluate_final does not raise on an empty partition
FinalEvaluationSkipsEmpty ==
    FinalStep /\ NonEmptyPartitionsTwoClass => phase' = "Evaluated"

\* evaluate_model_all_splits does not raise on an empty partition and gives
\* it an empty result
AllSplitsSkipsEmpty ==
    AllSplitsStep /\ NonEmptyPartitionsTwoClass =>
        /\ "raised" \notin DOMAIN metrics'
        /\ train_mask = {} => metrics'.train = EmptyDict
        /\ val_mask = {} => metrics'.val = EmptyDict
        /\ test_mask = {} => metrics'.test = EmptyDict

\* C21: evaluating a partition that contains zero nodes is skipped and
\* produces no error, in every evaluation path: evaluate_model_all_splits,
\* the per-epoch evaluation inside train, and evaluate_final.  Violated:
\* only evaluate_model_all_splits tests the mask; evaluate_epoch, which
\* train and evaluate_final call, hands the empty vectors to compute_metrics.
C21_EmptyPartitionSkipped ==
    [][/\ AllSplitsSkipsEmpty
       /\ EpochEvaluationSkipsEmpty
       /\ FinalEvaluationSkipsEmpty]_vars


(***************************************************************************)
(* Properties of find_best_threshold (checked under SpecThreshold)         *)
(***************************************************************************)

\* the samples predicted positive at threshold t: those whose probability
\* is at least t
PositiveAt(t) == {i \in 1..Len(y_prob) : y_prob[i] >= t}

\* the value of the chosen metric at threshold t, from the counts of true
\* positives, false positives and false negatives; 0 where undefined
MetricAt(t) ==
    LET tp == Cardinality({i \in PositiveAt(t) : y_true[i] = 1})
        fp == Cardinality({i \in PositiveAt(t) : y_true[i] = 0})
        fn == Cardinality({i \in 1..Len(y_true) \ PositiveAt(t) :
                              y_true[i] = 1})
        q  == CASE metric = "precision" -> Frac(tp, tp + fp)
                [] metric = "recall"    -> Frac(tp, tp + fn)
                [] metric = "f1"        -> Frac(2 * tp, 2 * tp + fp + fn)
    IN  IF q.den = 0 THEN Zero ELSE q

GridValues == {ThresholdGrid[k] : k \in DOMAIN ThresholdGrid}

\* C22: find_best_threshold returns a threshold of the sweep grid whose
\* value of the chosen metric is greater than or equal to that of every
\* other threshold of the grid, the lowest such threshold when several tie,
\* together with that metric value; predictions at a threshold t are
\* positive exactly when the probability is >= t.
C22_BestThresholdMaximizes ==
    best_found # NoResult =>
        /\ best_found.best_threshold \in GridValues
        /\ SameNumber(best_found.best_value,
                      MetricAt(best_found.best_threshold))
        /\ \A t \in GridValues :
               /\ ~LessThan(best_found.best_value, MetricAt(t))
               /\ SameNumber(MetricAt(t), best_found.best_value)
                      => best_found.best_threshold <= t

\* a call in which the largest value is reached at several thresholds, none
\* of them the first of the grid, one of them equal to the probability of a
\* positive sample
C22_Witness ==
    /\ best_found # NoResult
    /\ best_found.best_threshold > ThresholdGrid[1]
    /\ best_found.best_value.num > 0
    /\ \E t \in GridValues :
           /\ t > best_found.best_threshold
           /\ SameNumber(MetricAt(t), best_found.best_value)
           /\ \E i \in 1..Len(y_prob) : y_prob[i] = t /\ y_true[i] = 1


(***************************************************************************)
(* Properties of the transactions table (checked under SpecManager)        *)
(***************************************************************************)

\* the step is a call of the manager's method name
CallOf(name) == returned' # NoResult /\ returned'.call = name

\* the call before this step was add_status_column_and_update returning True
Phase2JustDone ==
    /\ returned # NoResult
    /\ returned.call = "add_status_column_and_update"
    /\ returned.value = TRUE

\* every row has a status, FRAUD for the rows whose fraud_flag is true and
\* OK for the others
StatusFollowsFlag(rows) ==
    \A id \in DOMAIN rows :
        /\ rows[id].status # SqlNull
        /\ rows[id].status = "FRAUD" <=> rows[id].fraud_flag
        /\ rows[id].status = "OK" <=> ~rows[id].fraud_flag

\* C23: after raw transactions have been inserted and
\* add_status_column_and_update has returned True, every row of the
\* transactions table has a non-null status, FRAUD exactly when the row's
\* fraud_flag is true and OK otherwise; repeating Phase 2 changes no row.
C23_StatusFollowsFraudFlag ==
    [][CallOf("add_status_column_and_update") /\ returned'.value = TRUE
          => /\ StatusFollowsFlag(txn_table'.rows)
             /\ Phase2JustDone => txn_table'.rows = txn_table.rows]_vars

\* Phase 2 has returned True on a table that holds a row with fraud and a
\* row without
C23_Witness ==
    /\ returned # NoResult
    /\ returned.call = "add_status_column_and_update"
    /\ returned.value = TRUE
    /\ \E a, b \in DOMAIN txn_table.rows :
           /\ txn_table.rows[a].status = "FRAUD"
           /\ txn_table.rows[b].status = "OK"

\* the rows of the DataFrame whose transaction_id was in the table before
\* the call or is the transaction_id of an earlier row of the DataFrame
AlreadyExisting(df, before) ==
    {i \in DOMAIN df.rows :
        \/ df.rows[i].transaction_id \in before
        \/ \E j \in 1..(i - 1) :
               df.rows[j].transaction_id = df.rows[i].transaction_id}

\* C24: insert_transactions_batch, called on a connected manager with a
\* non-empty DataFrame that has all seven required columns, returns
\* (inserted, skipped) where inserted is the number of rows newly added to
\* the table, skipped the number of rows not added because their
\* transaction_id already existed, inserted + skipped the number of rows
\* supplied; afterwards get_transaction_count has grown by inserted.
\* Violated: the call adds no row and returns (0, number of rows).
C24_InsertReportsCounts ==
    [][/\ CallOf("insert_transactions_batch")
       /\ connection = "open"
       /\ txn_table.exists
       /\ returned'.df.complete
       /\ returned'.df.rows # <<>>
       => LET df       == returned'.df
              before   == DOMAIN txn_table.rows
              after    == DOMAIN txn_table'.rows
              inserted == returned'.inserted
              skipped  == returned'.skipped
          IN  /\ inserted = Cardinality(after \ before)
              /\ skipped = Cardinality(AlreadyExisting(df, before))
              /\ inserted + skipped = Len(df.rows)
              /\ Cardinality(after) = Cardinality(before) + inserted]_vars


(***************************************************************************)
(* Properties of one iteration of train() (checked under SpecTrain)        *)
(***************************************************************************)

\* the calls after the first are evaluation passes, and each leaves the
\* model parameters and the optimizer state as the call before it left them
EvaluationsChangeNothing(log) ==
    \A i \in 2..Len(log) :
        /\ log[i].call = "evaluate_epoch"
        /\ log[i].params = log[i - 1].params
        /\ log[i].optimizer = log[i - 1].optimizer

\* C25: in every epoch of train the loss is computed from the labels of the
\* training-partition nodes only, exactly one gradient step is applied, the
\* step precedes all the evaluation passes of the epoch, and the evaluation
\* passes change neither the model parameters nor the optimizer state.
C25_OneStepThenEvaluations ==
    [][epoch' = epoch + 1
          => /\ Len(epoch_log') >= 2
             /\ epoch_log'[1].call = "train_epoch"
             /\ epoch_log'[1].loss_nodes = train_mask
             /\ epoch_log'[1].params = model_params + 1
             /\ epoch_log'[1].optimizer = optimizer_state + 1
             /\ EvaluationsChangeNothing(epoch_log')
             /\ model_params' = model_params + 1
             /\ optimizer_state' = optimizer_state + 1]_vars

\* a second epoch has run its gradient step and both evaluation passes on a
\* training partition that leaves some node out
C25_Witness ==
    /\ epoch = 2
    /\ Len(epoch_log) = 3
    /\ epoch_log[3].mask = val_mask
    /\ train_mask # DOMAIN labels
    /\ train_mask # {}


(***************************************************************************)
(* Properties of the end of train() (checked under SpecTrain)              *)
(***************************************************************************)

\* train() has been left, by its return or by an exception
TrainEnded == phase \in {"Done", "Failed"}

\* the early-stopping monitor has returned True, or the loop has run its
\* last iteration
StoppedOrAtLimit == es_early_stop \/ epoch = num_epochs

AtMostNumEpochs == epoch <= num_epochs

EndsByStopOrLimit == TrainEnded => StoppedOrAtLimit

\* no iteration (gradient step, checkpoint write) after the monitor has
\* returned True
NothingAfterStop ==
    es_early_stop => /\ epoch' = epoch
                     /\ model_params' = model_params
                     /\ optimizer_state' = optimizer_state
                     /\ ckpt_file' = ckpt_file
                     /\ ckpt_log' = ckpt_log

\* C26: train runs at most num_epochs epochs and ends either because the
\* early-stopping monitor returned True or because the epoch limit was
\* reached; once the monitor has returned True no further epoch takes place.
\* Violated: an evaluation that raises ends train before either.
C26_EndsByStopOrLimit ==
    /\ []AtMostNumEpochs
    /\ []EndsByStopOrLimit
    /\ [][NothingAfterStop]_vars


(***************************************************************************)
(* Properties of flattening and splitting (checked under SpecRGCN)         *)
(***************************************************************************)

\* the rows of node type t in the flattened matrix: its block
Block(t) ==
    flat.node_type_offsets[t]
        .. (flat.node_type_offsets[t] + flat.node_counts[t] - 1)

\* the number of flattened edges that come before those of the k-th edge
\* type of the metadata
RECURSIVE EdgesBefore(_)
EdgesBefore(k) ==
    IF k = 1 THEN 0
    ELSE EdgesBefore(k - 1) + Len(data[EdgeTypeSeq[k - 1][2]].edge_index)

\* every edge of every edge type is found in the flattened graph with its
\* source in the block of the source type, its destination in the block of
\* the destination type and the position of its edge type as relation id
EdgesInBlocks ==
    /\ Len(flat.edge_index) = EdgesBefore(Len(EdgeTypeSeq) + 1)
    /\ \A k \in DOMAIN EdgeTypeSeq :
         \A j \in DOMAIN data[EdgeTypeSeq[k][2]].edge_index :
            LET edge == flat.edge_index[EdgesBefore(k) + j]
            IN  /\ edge[1] \in Block(EdgeTypeSeq[k][1])
                /\ edge[2] \in Block(EdgeTypeSeq[k][3])
                /\ flat.edge_type[EdgesBefore(k) + j] = k - 1

\* splitting returns for every node type its rows in their original order
SplitReturnsRows ==
    /\ DOMAIN x_out = {NodeTypeSeq[k] : k \in DOMAIN NodeTypeSeq}
    /\ \A t \in DOMAIN x_out : x_out[t] = ProjectInputs(Memory(data))[t]

\* C27: _hetero_to_homo followed by _homo_to_hetero with the recorded
\* offsets and counts returns, for every node type, exactly the rows of
\* that type in their original order; every flattened edge has its source
\* index inside the block of the source type, its destination index inside
\* the block of the destination type, and a relation id equal to the
\* position of its edge type in the metadata.
C27_FlattenSplitInverse ==
    /\ flat # NoResult => EdgesInBlocks
    /\ x_out # NoResult => SplitReturnsRows

\* a graph with nodes of every type and an edge of every relation has been
\* flattened and split
C27_Witness ==
    /\ x_out # NoResult
    /\ \A t \in DOMAIN x_out : Len(x_out[t]) = MaxTypeNodes
    /\ \A k \in DOMAIN EdgeTypeSeq : data[EdgeTypeSeq[k][2]].edge_index # <<>>


(***************************************************************************)
(* Properties of the encoders' layers (checked under SpecEncoder)          *)
(***************************************************************************)

\* the position in applied of the final propagation layer
FinalConv ==
    CHOOSE i \in DOMAIN applied :
        /\ applied[i] = "conv"
        /\ \A j \in DOMAIN applied : applied[j] = "conv" => j <= i

\* C28: in the forward pass of all three encoder variants activation,
\* normalization and dropout are applied only between layers: after the
\* output of the final propagation layer none of the three is applied
\* before the embeddings are returned.
\* Violated: batch normalization follows every layer, the final one too.
C28_NothingAfterFinalLayer ==
    applied # <<>> =>
        \A i \in DOMAIN applied :
            i > FinalConv =>
                applied[i] \notin {"relu", "elu", "batch_norm", "dropout"}


(***************************************************************************)
(* Properties of the account features (checked under SpecGraph)            *)
(***************************************************************************)

\* the account table with the fraud flags replaced by those of flags
WithFlags(accounts, flags) ==
    [i \in DOMAIN accounts |-> [accounts[i] EXCEPT !.fraud_flag = flags[i]]]

\* C29: the account feature matrix does not depend on the fraud labels of
\* the accounts: an account table that differs from the one of the build
\* only in its fraud_flag values produces the same account feature matrix
\* from build_account_features.
\* Violated: fraud_flag is the fifth column of the matrix.
C29_FeaturesIgnoreLabels ==
    build_phase = "built" =>
        \A flags \in [DOMAIN db.account -> {0, 1}] :
            build_account_features(WithFlags(db.account, flags))
                = graph_data.account.x


(***************************************************************************)
(* Properties of the files of save_graph (checked under SpecGraph)         *)
(***************************************************************************)

\* the artifacts of the build_hetero_graph run of this builder
CurrentBuild ==
    [graph |-> graph_data, mappings |-> node_mappings, stats |-> graph_stats]

\* the file does not exist or holds this artifact
FromBuild(file, artifact) == file.exists => file.content = artifact

\* C30: at every point during and after save_graph, including when saving
\* over an earlier build is interrupted between the file writes, the graph
\* file, the node-mappings file and the statistics file on disk were all
\* produced by one build_hetero_graph run.
\* Violated: an interrupted save leaves the new graph next to the mappings
\* or the statistics of the earlier build.
C30_ArtifactsOfOneBuild ==
    \E build \in {EarlierBuild, CurrentBuild} :
        /\ FromBuild(graph_file, build.graph)
        /\ FromBuild(mappings_file, build.mappings)
        /\ FromBuild(stats_file, build.stats)

====
